---- MODULE Spec2Model ----
(***************************************************************************)
(* Rainbow HAT: the kernel driver's three device endpoints (LED strip over *)
(* SPI, buttons, buzzer over PWM), the user-space handle library on top of *)
(* them, and the metronome / piano application.                            *)
(*                                                                         *)
(* The specifications of the module:                                        *)
(*   SpecLed    the LED endpoint: rainbow_leds_write and what it calls     *)
(*   SpecTone   the tone endpoint under concurrent play_tone callers       *)
(*   SpecHandle init_rainbow_hat / free_rainbow_hat                        *)
(*   SpecLib    led_light_on / led_light_off through to the LED endpoint   *)
(*   SpecBtn    the button endpoint and get_active_button                  *)
(*   SpecApp    main, metronome_led_sequence, piano_simulation, signals;   *)
(*              SpecAppFair adds the scheduling it runs under              *)
(*   SpecSeq    metronome_led_sequence on an open handle, its LED calls    *)
(*              carried through the library to the LED endpoint            *)
(*   SpecBeat   the beat arithmetic of metronome_led_sequence on its own   *)
(*   SpecLock   rainbow_leds_write called from several threads at once     *)
(*   SpecTasksFair  the Sequencer's LED writes and the Input task's tone   *)
(*              writes side by side, both threads scheduled fairly         *)
(*   SpecScratch  led_light_on from two tasks on the shared LED_ARRAY      *)
(*   SpecProbe  rainbow_init, rainbow_exit and the two probe functions     *)
(* Text is a sequence of one-character strings; the byte after the last    *)
(* character is the terminating NUL the driver appends.                    *)
(***************************************************************************)
EXTENDS Integers, Sequences, FiniteSets, TLC

VARIABLES
    leds,        \* rainbow_spi_dev.leds: stored colour of each LED
    frame,       \* the buffer the last LED write handed to spi_sync, <<>> if none
    ledRet,      \* return value of the last rainbow_leds_write
    ledCmd,      \* the text of the last LED write
    ledsOk,      \* history: leds as they were after the last successful write
    buzLock,     \* rainbow_gpio_dev.lock: 0 when free, else the writer holding it
    wpc,         \* where each writer of the tone endpoint is in its call
    wArg,        \* each writer's call: frequency, byte count, via play_tone or raw
    wRet,        \* what rainbow_buzzer_write returned to each writer's last write
    ptRet,       \* what play_tone returned to its caller
    ptMsg,       \* the diagnostic play_tone stored in err_buff, "" if none
    busyBy,      \* history: the writer that held the lock when this one was refused
    pwm,         \* the tone generator: enabled flag, period and duty in ns
    hMem,        \* the handle's memory: "none", "live" (malloc'ed) or "freed"
    hFds,        \* the handle's fields leds_fd, buttons_fd, buzzer_fd as last stored
    hPtr,        \* the caller's pointer: "null", or "dev" once init returned a handle
    kOpen,       \* the descriptors open in the process
    hFrees,      \* free_rainbow_hat calls made with the pointer of the current handle
    hUaf,        \* history: a call read or wrote the handle's memory after free()
    hDoubleFree, \* history: free() was called on memory already freed
    hBadClose,   \* history: close() was called on a descriptor the handle no longer owns
    hAbort,      \* the process was ended inside a library call: the allocator
                 \* found a double free, or a store through a null pointer faulted
    hOp,         \* the last library call on the handle: name, result, diagnostic,
                 \* the descriptor it did I/O on (-1 when it did none), what the
                 \* endpoint returned, whether the caller gave an error buffer and
                 \* whether a diagnostic was written with none given
    keep_running, \* the shutdown flag: 1 while the loops are to go on
    sigPending,  \* a SIGINT/SIGTERM is generated for the process and not yet handled
    extSent,     \* signals sent to the process from outside so far
    mpc,         \* the main thread: main, and metronome_led_sequence inside it
    beat,        \* the metronome's beat, 1..3
    seqRet,      \* what metronome_led_sequence returned
    ppc,         \* the piano thread
    pianoRet,    \* what piano_simulation returned
    activeBtn,   \* active_btn of piano_simulation
    toneOut,     \* the frequency of the piano's last play_tone call
    procState,   \* "running", or "exited" once the process has ended
    exitStatus,  \* the exit status of the ended process
    fatal,       \* history: the loops that went to err_exit
    libOp,       \* the last LED call of the library: "none", "leds_on", "leds_off"
    libArg,      \* its led_arg: the pins and the colours
    libWrote,    \* whether that call reached write() on the LED endpoint
    libRet,      \* what the call returned
    errBuf,      \* the caller's err_buff
    libPrev,     \* history: name and result of the LED call before the last
    btnOp,       \* who read the button endpoint last: "none", "read", "get_btn"
    btnGpio,     \* the levels the last read of the button endpoint found
    btnRet,      \* what rainbow_buttons_read returned to that read
    btnOffset,   \* the file offset of the button endpoint
    btnActive,   \* *btn_active after the last get_active_button
    btnLibRet,   \* what get_active_button returned
    btnErrBuf,   \* the err_buff of the get_active_button caller
    bpm,         \* the tempo metronome_led_sequence was called with, 0 before
    beat_duration_us,  \* its beat_duration_us
    operation_time_us, \* the time measured around the last leds_on / leds_off pair
    slept,       \* the usleep for the rest of that beat: whether called, and with what
    seqLastOn,    \* history: the led_arg of the Sequencer's last leds_on before this
    spiLock,     \* rainbow_spi_dev.lock: 0 when free, else the LED writer holding it
    lpc,         \* where each concurrent LED writer is in rainbow_leds_write
    lcmd,        \* the text each of them writes, empty outside a call
    lups,        \* the pairs of that text parse_led_colors has yet to store
    lret,        \* what rainbow_leds_write returns to each, 0 until it is set
    serial,      \* history: the colours after the commands copied in so far,
                 \* each applied whole, in the order their writers took the lock
    LED_ARRAY,   \* the static scratch buffer of the library, up to its first NUL
    cpc,         \* where each task calling led_light_on is
    cArg,        \* the led_arg of that call
    cIdx,        \* idx of its create_led_array loop
    cRet,        \* what its last led_light_on returned
    cWrote,      \* the text its last set_leds handed to write()
    modState,    \* rainbow_init: "out" before it and after a failure or
                 \* rainbow_exit, "spi" between its two registrations, "in"
                 \* once it returned 0
    drivers,     \* the drivers registered: "spi", "platform"
    devState,    \* per device: "none", "bound" after a probe returned 0,
                 \* "failed" after it returned an error
    misc,        \* the misc devices registered: "leds", "buttons", "buzzer"
    initRet,     \* what the last rainbow_init returned
    probeRet     \* what the last probe of each device returned

ledVars == <<leds, frame, ledRet, ledCmd, ledsOk>>
toneVars == <<buzLock, wpc, wArg, wRet, ptRet, ptMsg, busyBy, pwm>>
handleVars == <<hMem, hFds, hPtr, kOpen, hFrees, hUaf, hDoubleFree, hBadClose, hAbort, hOp>>
appVars == <<keep_running, sigPending, extSent, mpc, beat, seqRet, ppc, pianoRet,
             activeBtn, toneOut, procState, exitStatus, fatal>>
libVars == <<libOp, libArg, libWrote, libRet, errBuf, libPrev>>
btnVars == <<btnOp, btnGpio, btnRet, btnOffset, btnActive, btnLibRet, btnErrBuf>>
seqVars == <<bpm, beat_duration_us, operation_time_us, slept, seqLastOn>>
lockVars == <<spiLock, lpc, lcmd, lups, lret, serial>>
scratchVars == <<LED_ARRAY, cpc, cArg, cIdx, cRet, cWrote>>
probeVars == <<modState, drivers, devState, misc, initRet, probeRet>>
vars == <<ledVars, toneVars, handleVars, appVars, libVars, btnVars, seqVars, lockVars, scratchVars, probeVars>>

\* what each specification leaves alone
notLed == <<toneVars, handleVars, appVars, libVars, btnVars, seqVars, lockVars, scratchVars, probeVars>>
notTone == <<ledVars, handleVars, appVars, libVars, btnVars, seqVars, lockVars, scratchVars, probeVars>>
notHandle == <<ledVars, toneVars, appVars, libVars, btnVars, seqVars, lockVars, scratchVars, probeVars>>
notApp == <<ledVars, toneVars, libVars, btnVars, seqVars, lockVars, scratchVars, probeVars>>
notLib == <<toneVars, handleVars, appVars, btnVars, seqVars, lockVars, scratchVars, probeVars>>
notBtn == <<ledVars, toneVars, handleVars, appVars, libVars, seqVars, lockVars, scratchVars, probeVars>>
notLock == <<ledRet, ledCmd, ledsOk, toneVars, handleVars, appVars, libVars, btnVars, seqVars, scratchVars, probeVars>>
notScratch == <<ledVars, toneVars, handleVars, appVars, libVars, btnVars, seqVars, lockVars, probeVars>>
notProbe == <<ledVars, toneVars, handleVars, appVars, libVars, btnVars, seqVars, lockVars, scratchVars>>

(***************************************************************************)
(* Program constants                                                       *)
(***************************************************************************)
NUMBER_LEDS == 7
NUMBER_START_BYTES == 4
NUMBER_BYTES_PER_LED == 4
NUMBER_STOP_BYTES == 4
MAX_EXPECTED_INPUT_LENGTH == 70
LED_BRIGHTNESS == 224
MAX_BRIGHTNESS == 31
LED_NUM_STR_SIZE == 10
HEX_COLOR_LEN == 6

ENOMEM == 12
EFAULT == 14
EBUSY == 16
EINVAL == 22
ERANGE == 34
EIO == 5
ERESTARTSYS == 512
ERESTART == 85

SIZEOF_ULONG == 8
INT_MAX == 2147483647
NSEC_PER_SEC == 1000000000

FREQ_C == 262
FREQ_E == 330
FREQ_G == 392
EXIT_FAILURE == 1

MAX_AMOUNT_PINS == 7
LED_ARRAY_SIZE == 70
BTN_STATUS_SIZE == 3

(***************************************************************************)
(* Bounds of the model                                                     *)
(***************************************************************************)
\* largest number of pin:colour pairs in a generated LED command
MaxPairs == 2
\* number of threads writing the tone endpoint at the same time
NumWriters == 2
\* number of threads writing the LED endpoint at the same time
NumLedWriters == 2
\* how often a caller may pass the same handle pointer to free_rainbow_hat
MaxFrees == 2
\* how many SIGINT/SIGTERM the outside sends to the running application
MaxExtSignals == 1
\* how many reads of the button endpoint advance its file offset
MaxReads == 4

(***************************************************************************)
(* Characters                                                              *)
(***************************************************************************)
DecDigits == <<"0", "1", "2", "3", "4", "5", "6", "7", "8", "9">>
LowerHex == <<"a", "b", "c", "d", "e", "f">>
UpperHex == <<"A", "B", "C", "D", "E", "F">>

IndexOf(s, c) == IF \E i \in 1..Len(s) : s[i] = c
                 THEN CHOOSE i \in 1..Len(s) : s[i] = c
                 ELSE 0

\* the byte at position p of a NUL-terminated buffer holding text buf
CharAt(buf, p) == IF p \in 1..Len(buf) THEN buf[p] ELSE "NUL"

hex_to_int(c) ==
    IF IndexOf(DecDigits, c) > 0 THEN IndexOf(DecDigits, c) - 1
    ELSE IF IndexOf(LowerHex, c) > 0 THEN 10 + IndexOf(LowerHex, c) - 1
    ELSE IF IndexOf(UpperHex, c) > 0 THEN 10 + IndexOf(UpperHex, c) - 1
    ELSE -1

\* parse_hex_color(buf + at): the 24-bit colour, or -EINVAL at the first
\* byte among the six that is no hex digit (the NUL included). Six shifts
\* by four bits stay inside the unsigned int, so nothing wraps.
RECURSIVE hex_loop(_, _, _, _)
hex_loop(buf, at, i, color) ==
    IF i = HEX_COLOR_LEN THEN color
    ELSE LET value == hex_to_int(CharAt(buf, at + i))
         IN  IF value < 0 THEN -EINVAL
             ELSE hex_loop(buf, at, i + 1, color * 16 + value)

parse_hex_color(buf, at) == hex_loop(buf, at, 0, 0)

\* strchr(buf + from, c): position of the first c at or after from, 0 for NULL
strchr(buf, from, c) ==
    IF \E p \in from..Len(buf) : buf[p] = c
    THEN CHOOSE p \in from..Len(buf) :
             buf[p] = c /\ \A q \in from..(p - 1) : buf[q] # c
    ELSE 0

\* kstrtol(s, 10, &res): optional sign, then decimal digits only, and one
\* newline allowed at the end; anything else is an error
RECURSIVE DecValue(_, _)
DecValue(s, acc) ==
    IF s = <<>> THEN acc
    ELSE DecValue(Tail(s), acc * 10 + (IndexOf(DecDigits, Head(s)) - 1))

kstrtol(s) ==
    LET signed == Len(s) > 0 /\ s[1] \in {"-", "+"}
        body == IF signed THEN Tail(s) ELSE s
        digs == IF Len(body) > 0 /\ body[Len(body)] = "\n"
                THEN SubSeq(body, 1, Len(body) - 1) ELSE body
        good == Len(digs) > 0 /\ \A i \in 1..Len(digs) : IndexOf(DecDigits, digs[i]) > 0
    IN  IF ~good THEN [err |-> -EINVAL, val |-> 0]
        ELSE [err |-> 0,
              val |-> IF signed /\ s[1] = "-" THEN -DecValue(digs, 0) ELSE DecValue(digs, 0)]

Black == [r |-> 0, g |-> 0, b |-> 0]

RgbOfLowByteFirst(color) == [r |-> color % 256,
                            g |-> (color \div 256) % 256,
                            b |-> (color \div 65536) % 256]

RgbOf(color) == [r |-> (color \div 65536) % 256,
                 g |-> (color \div 256) % 256,
                 b |-> color % 256]

(***************************************************************************)
(* parse_led_colors: runs over the pairs of the text and stores each       *)
(* colour into dev->leds as soon as its pair is parsed. parse_loop gives   *)
(* the error code and, in order, the stores <<led_num, color>> the call    *)
(* made before it returned; StoreAll performs them on the LED array.       *)
(***************************************************************************)
RECURSIVE parse_loop_clamps(_, _, _)
parse_loop_clamps(ups, buf, curr) ==
    IF ~(curr < Len(buf) + 1 /\ CharAt(buf, curr) # "NUL")
    THEN [ret |-> 0, ups |-> ups]
    ELSE
    LET colon == strchr(buf, curr, ":") IN
    IF colon = 0 THEN [ret |-> -EINVAL, ups |-> ups]
    ELSE IF colon - curr >= LED_NUM_STR_SIZE THEN [ret |-> -EINVAL, ups |-> ups]
    ELSE
    LET num == kstrtol(SubSeq(buf, curr, colon - 1)) IN
    IF num.err # 0 THEN [ret |-> -EINVAL, ups |-> ups]
    ELSE
    LET led_num == IF num.val < 0 THEN 0
                   ELSE IF num.val >= NUMBER_LEDS THEN NUMBER_LEDS - 1 ELSE num.val
        color == parse_hex_color(buf, colon + 1) IN
    IF color < 0 THEN [ret |-> -EINVAL, ups |-> ups]
    ELSE
    LET ups2 == Append(ups, <<led_num, color>>)
        next == strchr(buf, colon + 1 + HEX_COLOR_LEN, ",")
    IN  IF next # 0 /\ next < Len(buf) + 1
        THEN parse_loop_clamps(ups2, buf, next + 1)
        ELSE [ret |-> 0, ups |-> ups2]

RECURSIVE parse_loop(_, _, _)
parse_loop(ups, buf, curr) ==
    IF ~(curr < Len(buf) + 1 /\ CharAt(buf, curr) # "NUL")
    THEN [ret |-> 0, ups |-> ups]
    ELSE
    LET colon == strchr(buf, curr, ":") IN
    IF colon = 0 THEN [ret |-> -EINVAL, ups |-> ups]
    ELSE IF colon - curr >= LED_NUM_STR_SIZE THEN [ret |-> -EINVAL, ups |-> ups]
    ELSE
    LET num == kstrtol(SubSeq(buf, curr, colon - 1)) IN
    IF num.err # 0 THEN [ret |-> -EINVAL, ups |-> ups]
    ELSE IF num.val < 0 \/ num.val >= NUMBER_LEDS THEN [ret |-> -EINVAL, ups |-> ups]
    ELSE
    LET color == parse_hex_color(buf, colon + 1) IN
    IF color < 0 THEN [ret |-> -EINVAL, ups |-> ups]
    ELSE
    LET ups2 == Append(ups, <<num.val, color>>)
        next == strchr(buf, colon + 1 + HEX_COLOR_LEN, ",")
    IN  IF next # 0 /\ next < Len(buf) + 1
        THEN parse_loop(ups2, buf, next + 1)
        ELSE [ret |-> 0, ups |-> ups2]

RECURSIVE StoreAll(_, _)
StoreAll(L, ups) ==
    IF ups = <<>> THEN L
    ELSE StoreAll([L EXCEPT ![Head(ups)[1]] = RgbOf(Head(ups)[2])], Tail(ups))

(***************************************************************************)
(* update_leds: the buffer handed to spi_sync                              *)
(***************************************************************************)
FrameLen == NUMBER_START_BYTES + NUMBER_LEDS * NUMBER_BYTES_PER_LED + NUMBER_STOP_BYTES

\* LED_BRIGHTNESS | MAX_BRIGHTNESS: the two masks share no bit
BrightnessByte == LED_BRIGHTNESS + MAX_BRIGHTNESS

LedBlockRGB(L, i) == <<BrightnessByte, L[i].r, L[i].g, L[i].b>>

LedBlock(L, i) == <<BrightnessByte, L[i].b, L[i].g, L[i].r>>

update_leds_buffer_last_first(L) ==
    [i \in 1..FrameLen |->
        IF i <= NUMBER_START_BYTES THEN 0
        ELSE IF i > NUMBER_START_BYTES + NUMBER_LEDS * NUMBER_BYTES_PER_LED THEN 255
        ELSE LedBlock(L, (NUMBER_LEDS - 1) - ((i - NUMBER_START_BYTES - 1) \div NUMBER_BYTES_PER_LED))
                 [((i - NUMBER_START_BYTES - 1) % NUMBER_BYTES_PER_LED) + 1]]

update_leds_buffer(L) ==
    [k \in 1..FrameLen |->
        IF k <= NUMBER_START_BYTES THEN 0
        ELSE IF k > FrameLen - NUMBER_STOP_BYTES THEN 255
        ELSE LedBlock(L, (k - 1 - NUMBER_START_BYTES) \div NUMBER_BYTES_PER_LED)
                     [((k - 1 - NUMBER_START_BYTES) % NUMBER_BYTES_PER_LED) + 1]]

(***************************************************************************)
(* The LED commands the model writes                                       *)
(***************************************************************************)
ColABCDEF == <<"A", "B", "C", "D", "E", "F">>
ColFEDCBA == <<"F", "E", "D", "C", "B", "A">>
ColBlack == <<"0", "0", "0", "0", "0", "0">>

\* the pairs generated commands are made of: two valid ones on different
\* pins and one whose pin is one past the last LED
PairTexts == {
    <<"1", ":">> \o ColABCDEF,
    <<"3", ":">> \o ColFEDCBA,
    <<"7", ":">> \o ColABCDEF
}

RECURSIVE Join(_)
Join(ps) == IF Len(ps) = 0 THEN <<>>
            ELSE IF Len(ps) = 1 THEN ps[1]
            ELSE ps[1] \o <<",">> \o Join(Tail(ps))

PairSeqs == UNION {[1..n -> PairTexts] : n \in 1..MaxPairs}

\* clearLeds as the library writes it: every pin, black
ClearText == Join([i \in 1..NUMBER_LEDS |-> <<DecDigits[i]>> \o <<":">> \o ColBlack])

\* a command of exactly MAX_EXPECTED_INPUT_LENGTH bytes: every pin with
\* the colour FEDCBA, the first pin written with leading zeros
FullLengthText ==
    <<"0", "0", "0", "0", "0", "0", "0", "0">>
    \o Join([i \in 1..NUMBER_LEDS |-> <<DecDigits[i]>> \o <<":">> \o ColFEDCBA])

\* texts off the pin:colour grammar, and one longer than the endpoint takes
OddTexts == {
    <<>>,
    <<"1">> \o ColABCDEF,
    <<"1", ":", "A", "B", "C">>,
    <<"-", "1", ":">> \o ColABCDEF,
    <<"3", ":">> \o ColFEDCBA \o <<",">>,
    <<"1", ":">> \o ColABCDEF \o <<"x", "y", ",", "3", ":">> \o ColFEDCBA,
    <<"1", ":">> \o ColFEDCBA \o <<"\n">>,
    <<"1", ":">> \o ColABCDEF \o <<",", "3", ":", "F", "E", "D", "C", "G", "A">>,
    ClearText \o <<",", "1", ":">> \o ColABCDEF
}

LedCommands == {Join(ps) : ps \in PairSeqs} \cup {ClearText, FullLengthText} \cup OddTexts

(***************************************************************************)
(* create_led_array: the text the library builds in LED_ARRAY from the     *)
(* pins and colours of a led_arg. ret is its return value, text the        *)
(* content of LED_ARRAY when it returns 0.                                 *)
(***************************************************************************)
\* "%d" of snprintf, for the pin numbers the model uses
DecText(n) ==
    IF n < 0 THEN <<"-">> \o <<DecDigits[(-n) + 1]>>
    ELSE IF n < 10 THEN <<DecDigits[n + 1]>>
    ELSE <<DecDigits[(n \div 10) + 1], DecDigits[(n % 10) + 1]>>

min(a, b) == IF a < b THEN a ELSE b

\* the colour create_led_array pairs with pins[idx], idx counted from 0
ColourFor(idx, amount_leds, hex_color) ==
    IF Len(hex_color) = 1 \/ Len(hex_color) = amount_leds
    THEN hex_color[min(idx, Len(hex_color) - 1) + 1]
    ELSE hex_color[1]

RECURSIVE led_array_loop(_, _, _, _)
led_array_loop(arr, idx, pins, hex_color) ==
    IF idx >= Len(pins) THEN [ret |-> 0, text |-> arr]
    ELSE LET tmp == (IF idx > 0 THEN <<",">> ELSE <<>>) \o DecText(pins[idx + 1])
                    \o <<":">> \o ColourFor(idx, Len(pins), hex_color)
         IN  IF Len(arr) + Len(tmp) >= LED_ARRAY_SIZE
             THEN [ret |-> -2, text |-> arr]
             ELSE led_array_loop(arr \o tmp, idx + 1, pins, hex_color)

create_led_array(pins, hex_color) ==
    IF \/ Len(pins) > MAX_AMOUNT_PINS \/ Len(hex_color) > MAX_AMOUNT_PINS
       \/ Len(pins) <= 0 \/ Len(hex_color) <= 0
    THEN [ret |-> -1, text |-> <<>>]
    ELSE led_array_loop(<<>>, 0, pins, hex_color)

PIN_NUMBERS == <<0, 1, 2, 3, 4, 5, 6>>

\* the led_arg values the model calls led_light_on with: pins inside and
\* outside 0..6 in each position, and none at all; one colour for all
\* pins, or one colour per pin
LibPins == {<<1>>, <<1, 3>>, <<7>>, <<7, 3>>, <<3, 7>>, <<-1, 3>>, <<3, -1>>, <<>>}
LibColours == {<<ColABCDEF>>, <<ColABCDEF, ColFEDCBA>>}

LibTexts == {create_led_array(pins, cols).text : pins \in LibPins, cols \in LibColours}
            \cup {create_led_array(PIN_NUMBERS, <<ColBlack>>).text}

\* the colours main passes to metronome_led_sequence
COLOR_RED == <<"F", "F", "0", "0", "0", "0">>
COLOR_PURPLE == <<"F", "F", "0", "0", "F", "F">>

\* slice(buf, src, start, end): the elements src[start] .. src[end - 1]
slice(src, start, end) == SubSeq(src, start + 1, end)

beat_arg_halves_swapped(b, color_beat_1, color_beat_2) ==
    [pins |-> CASE b = 1 -> PIN_NUMBERS
                [] b = 2 -> slice(PIN_NUMBERS, 0, 3)
                [] b = 3 -> slice(PIN_NUMBERS, 4, MAX_AMOUNT_PINS),
     colors |-> <<IF b = 1 THEN color_beat_1 ELSE color_beat_2>>]

\* beat_arg as metronome_led_sequence sets it up for beat b: one colour,
\* and the pins of the beat
beat_arg(b, color_beat_1, color_beat_2) ==
    [pins |-> CASE b = 1 -> PIN_NUMBERS
                [] b = 2 -> slice(PIN_NUMBERS, 4, MAX_AMOUNT_PINS)
                [] b = 3 -> slice(PIN_NUMBERS, 0, 3),
     colors |-> <<IF b = 1 THEN color_beat_1 ELSE color_beat_2>>]

SeqTexts == {create_led_array(a.pins, a.colors).text :
                 a \in {beat_arg(b, COLOR_RED, COLOR_PURPLE) : b \in 1..3}}

\* parse_led_colors on each command text, worked out once
Parsed == [buf \in LedCommands \cup LibTexts \cup SeqTexts |-> parse_loop(<<>>, buf, 1)]

parse_led_colors(L, buf) ==
    [ret |-> Parsed[buf].ret, leds |-> StoreAll(L, Parsed[buf].ups)]

(***************************************************************************)
(* rainbow_leds_write. env is what the kernel environment does to this     *)
(* call: "ok", or the allocation, the interruptible lock, the copy from    *)
(* user space or the SPI transfer failing.                                 *)
(***************************************************************************)
LedEnv == {"ok", "nomem", "intr", "fault", "spi"}

leds_write_result_limit_excluded(L, buf, env) ==
    IF Len(buf) >= MAX_EXPECTED_INPUT_LENGTH
    THEN [ret |-> -EINVAL, leds |-> L, sent |-> FALSE]
    ELSE IF env = "nomem" THEN [ret |-> -ENOMEM, leds |-> L, sent |-> FALSE]
    ELSE IF env = "intr" THEN [ret |-> -ERESTARTSYS, leds |-> L, sent |-> FALSE]
    ELSE IF env = "fault" THEN [ret |-> -EFAULT, leds |-> L, sent |-> FALSE]
    ELSE LET p == parse_led_colors(L, buf) IN
         IF p.ret # 0 THEN [ret |-> -EINVAL, leds |-> p.leds, sent |-> FALSE]
         ELSE IF env = "spi" THEN [ret |-> -EIO, leds |-> p.leds, sent |-> FALSE]
         ELSE [ret |-> Len(buf), leds |-> p.leds, sent |-> TRUE]

leds_write_result(L, buf, env) ==
    IF Len(buf) > MAX_EXPECTED_INPUT_LENGTH
    THEN [ret |-> -EINVAL, leds |-> L, sent |-> FALSE]
    ELSE IF env = "nomem" THEN [ret |-> -ENOMEM, leds |-> L, sent |-> FALSE]
    ELSE IF env = "intr" THEN [ret |-> -ERESTARTSYS, leds |-> L, sent |-> FALSE]
    ELSE IF env = "fault" THEN [ret |-> -EFAULT, leds |-> L, sent |-> FALSE]
    ELSE LET p == parse_led_colors(L, buf) IN
         IF p.ret # 0 THEN [ret |-> -EINVAL, leds |-> p.leds, sent |-> FALSE]
         ELSE IF env = "spi" THEN [ret |-> -EIO, leds |-> p.leds, sent |-> FALSE]
         ELSE [ret |-> Len(buf), leds |-> p.leds, sent |-> TRUE]

rainbow_leds_write(buf, env) ==
    LET res == leds_write_result(leds, buf, env) IN
    /\ leds' = res.leds
    /\ frame' = IF res.sent THEN update_leds_buffer(res.leds) ELSE <<>>
    /\ ledRet' = res.ret
    /\ ledCmd' = buf
    /\ ledsOk' = IF res.ret >= 0 THEN res.leds ELSE ledsOk

InitLed ==
    /\ leds = [i \in 0..(NUMBER_LEDS - 1) |-> Black]
    /\ frame = <<>>
    /\ ledRet = 0
    /\ ledCmd = <<>>
    /\ ledsOk = [i \in 0..(NUMBER_LEDS - 1) |-> Black]

LedWrite ==
    /\ \E buf \in LedCommands, env \in LedEnv : rainbow_leds_write(buf, env)
    /\ UNCHANGED notLed

NextLed == LedWrite

(***************************************************************************)
(* The tone endpoint: rainbow_buzzer_write, one step per statement that    *)
(* touches shared state, under NumWriters threads. A thread reaches the    *)
(* endpoint through play_tone, or with a write of its own.                 *)
(***************************************************************************)
Writers == 1..NumWriters

Freqs == {0, 262, 2000000000}
Counts == {SIZEOF_ULONG, 4}
PwmConfigResults == {0, -EINVAL}

NoDiag == ""
BuzzerInvalidMsg == "Buzzer-Device: Invalid arguments!"
BuzzerBusyMsg == "Buzzer-Device: Device busy!"
BuzzerFaultMsg == "Buzzer-Device: Segmentation fault!"
BuzzerRangeMsg == "Buzzer-Device: Invalid argument - validate frequency!"
BuzzerUnexpectedMsg == "Buzzer-Device: Unexpected error occurred!"

\* write(2): a negative return of the handler reaches the caller as -1
write_syscall(r) == IF r < 0 THEN -1 ELSE r

\* play_tone: bytes_written = write(...) < 0
play_tone_bytes_written(r) == IF write_syscall(r) < 0 THEN 1 ELSE 0

play_tone_msg(bw) ==
    IF bw < 0
    THEN CASE bw = -EINVAL -> BuzzerInvalidMsg
           [] bw = -EBUSY -> BuzzerBusyMsg
           [] bw = -EFAULT -> BuzzerFaultMsg
           [] bw = -ERANGE -> BuzzerRangeMsg
           [] OTHER -> BuzzerUnexpectedMsg
    ELSE NoDiag

play_tone_ret(bw) == IF bw < 0 THEN -1 ELSE 0

InSection(w) == wpc[w] \in {"copy", "config", "unlock"}

\* the handler returns r to writer w; a play_tone caller then gets
\* play_tone's own result
BuzzerReturn(w, r) ==
    /\ wpc' = [wpc EXCEPT ![w] = "done"]
    /\ wRet' = [wRet EXCEPT ![w] = r]
    /\ ptRet' = [ptRet EXCEPT ![w] =
                    IF wArg[w].lib THEN play_tone_ret(play_tone_bytes_written(r)) ELSE @]
    /\ ptMsg' = [ptMsg EXCEPT ![w] =
                    IF wArg[w].lib THEN play_tone_msg(play_tone_bytes_written(r)) ELSE @]

mutex_unlock(w) == buzLock' = 0

\* a thread starts a write: the handler checks the byte count first
BuzzerWriteEnter(w, freq, count, lib) ==
    /\ wpc[w] \in {"idle", "done"}
    /\ lib => count = SIZEOF_ULONG
    /\ wArg' = [wArg EXCEPT ![w] = [freq |-> freq, count |-> count, lib |-> lib]]
    /\ busyBy' = [v \in Writers |-> IF v = w \/ busyBy[v] = w THEN 0 ELSE busyBy[v]]
    /\ IF count # SIZEOF_ULONG
       THEN /\ wpc' = [wpc EXCEPT ![w] = "done"]
            /\ wRet' = [wRet EXCEPT ![w] = -EINVAL]
            /\ ptRet' = [ptRet EXCEPT ![w] = 0]
            /\ ptMsg' = [ptMsg EXCEPT ![w] = NoDiag]
       ELSE /\ wpc' = [wpc EXCEPT ![w] = "trylock"]
            /\ wRet' = [wRet EXCEPT ![w] = 0]
            /\ ptRet' = [ptRet EXCEPT ![w] = 0]
            /\ ptMsg' = [ptMsg EXCEPT ![w] = NoDiag]
    /\ UNCHANGED <<buzLock, pwm>>

TryLockTakesAnyway(w) ==
    /\ wpc[w] = "trylock"
    /\ buzLock' = w
    /\ wpc' = [wpc EXCEPT ![w] = "copy"]
    /\ UNCHANGED <<wArg, wRet, ptRet, ptMsg, busyBy, pwm>>

\* if (!mutex_trylock(&gpio_dev->lock)) return -EBUSY;
BuzzerTryLock(w) ==
    /\ wpc[w] = "trylock"
    /\ IF buzLock = 0
       THEN /\ buzLock' = w
            /\ wpc' = [wpc EXCEPT ![w] = "copy"]
            /\ UNCHANGED <<wRet, ptRet, ptMsg, busyBy>>
       ELSE /\ busyBy' = [busyBy EXCEPT ![w] = buzLock]
            /\ BuzzerReturn(w, -EBUSY)
            /\ UNCHANGED buzLock
    /\ UNCHANGED <<wArg, pwm>>

CopyFaultKeepsLock(w) ==
    /\ BuzzerReturn(w, -EFAULT)
    /\ UNCHANGED buzLock

\* copy_from_user failed: unlock, return -EFAULT
CopyFault(w) ==
    /\ mutex_unlock(w)
    /\ BuzzerReturn(w, -EFAULT)

\* copy_from_user(&freq, buf, sizeof(freq))
BuzzerCopy(w, fault) ==
    /\ wpc[w] = "copy"
    /\ IF fault
       THEN CopyFault(w)
       ELSE /\ wpc' = [wpc EXCEPT ![w] = "config"]
            /\ UNCHANGED <<buzLock, wRet, ptRet, ptMsg>>
    /\ UNCHANGED <<wArg, busyBy, pwm>>

PeriodOfWrapped(freq) == (NSEC_PER_SEC \div freq) - INT_MAX - 1

\* period = 1000000000UL / freq
PeriodOf(freq) == NSEC_PER_SEC \div freq

BuzzerConfigZeroAsTone(w, rc) ==
    /\ wpc[w] = "config"
    /\ IF wArg[w].freq = 0
       THEN /\ rc = 0
            /\ pwm' = [enabled |-> TRUE, period |-> 0, duty |-> 0]
            /\ wpc' = [wpc EXCEPT ![w] = "unlock"]
            /\ wRet' = [wRet EXCEPT ![w] = wArg[w].count]
            /\ UNCHANGED <<buzLock, ptRet, ptMsg>>
       ELSE IF PeriodOf(wArg[w].freq) > INT_MAX
       THEN /\ rc = 0
            /\ mutex_unlock(w)
            /\ BuzzerReturn(w, -ERANGE)
            /\ UNCHANGED pwm
       ELSE IF rc = 0
       THEN /\ pwm' = [enabled |-> TRUE,
                       period |-> PeriodOf(wArg[w].freq),
                       duty |-> PeriodOf(wArg[w].freq) \div 2]
            /\ wpc' = [wpc EXCEPT ![w] = "unlock"]
            /\ wRet' = [wRet EXCEPT ![w] = wArg[w].count]
            /\ UNCHANGED <<buzLock, ptRet, ptMsg>>
       ELSE /\ mutex_unlock(w)
            /\ BuzzerReturn(w, rc)
            /\ UNCHANGED pwm
    /\ UNCHANGED <<wArg, busyBy>>

\* the branch on freq: disable, or compute the period and configure
BuzzerConfig(w, rc) ==
    /\ wpc[w] = "config"
    /\ IF wArg[w].freq = 0
       THEN /\ rc = 0
            /\ pwm' = [pwm EXCEPT !.enabled = FALSE]
            /\ wpc' = [wpc EXCEPT ![w] = "unlock"]
            /\ wRet' = [wRet EXCEPT ![w] = wArg[w].count]
            /\ UNCHANGED <<buzLock, ptRet, ptMsg>>
       ELSE IF PeriodOf(wArg[w].freq) > INT_MAX
       THEN /\ rc = 0
            /\ mutex_unlock(w)
            /\ BuzzerReturn(w, -ERANGE)
            /\ UNCHANGED pwm
       ELSE IF rc = 0
       THEN /\ pwm' = [enabled |-> TRUE,
                       period |-> PeriodOf(wArg[w].freq),
                       duty |-> PeriodOf(wArg[w].freq) \div 2]
            /\ wpc' = [wpc EXCEPT ![w] = "unlock"]
            /\ wRet' = [wRet EXCEPT ![w] = wArg[w].count]
            /\ UNCHANGED <<buzLock, ptRet, ptMsg>>
       ELSE /\ mutex_unlock(w)
            /\ BuzzerReturn(w, rc)
            /\ UNCHANGED pwm
    /\ UNCHANGED <<wArg, busyBy>>

\* mutex_unlock(&gpio_dev->lock); return ret;
BuzzerUnlock(w) ==
    /\ wpc[w] = "unlock"
    /\ mutex_unlock(w)
    /\ BuzzerReturn(w, wRet[w])
    /\ UNCHANGED <<wArg, busyBy, pwm>>

InitTone ==
    /\ buzLock = 0
    /\ wpc = [w \in Writers |-> "idle"]
    /\ wArg = [w \in Writers |-> [freq |-> 0, count |-> SIZEOF_ULONG, lib |-> TRUE]]
    /\ wRet = [w \in Writers |-> 0]
    /\ ptRet = [w \in Writers |-> 0]
    /\ ptMsg = [w \in Writers |-> NoDiag]
    /\ busyBy = [w \in Writers |-> 0]
    /\ pwm = [enabled |-> FALSE, period |-> 0, duty |-> 0]

ToneEnter ==
    /\ \E w \in Writers, f \in Freqs, c \in Counts, lib \in BOOLEAN :
           BuzzerWriteEnter(w, f, c, lib)
    /\ UNCHANGED notTone
ToneTryLock ==
    /\ \E w \in Writers : BuzzerTryLock(w)
    /\ UNCHANGED notTone
ToneCopy ==
    /\ \E w \in Writers, fault \in BOOLEAN : BuzzerCopy(w, fault)
    /\ UNCHANGED notTone
ToneConfig ==
    /\ \E w \in Writers, rc \in PwmConfigResults : BuzzerConfig(w, rc)
    /\ UNCHANGED notTone
ToneUnlock ==
    /\ \E w \in Writers : BuzzerUnlock(w)
    /\ UNCHANGED notTone

NextTone == ToneEnter \/ ToneTryLock \/ ToneCopy \/ ToneConfig \/ ToneUnlock

(***************************************************************************)
(* The handle: init_rainbow_hat and free_rainbow_hat. open() gives the     *)
(* lowest descriptor not in use. Memory that was passed to free() holds    *)
(* no defined value: a read of a field in it gives any of StaleFds.        *)
(***************************************************************************)
Endpoints == <<"leds", "buttons", "buzzer">>
StdFds == {0, 1, 2}
FdSpace == 0..5
StaleFds == {-1, 0, 3}

NoOp == [op |-> "none", ret |-> 0, msg |-> NoDiag, io |-> -1, dev |-> 0,
         buf |-> TRUE, nullw |-> FALSE]

LowestFree(open) == CHOOSE n \in FdSpace : n \notin open /\ \A m \in 0..(n - 1) : m \in open

\* the three open() calls in the order the code makes them; ok[i] says
\* whether the i-th succeeds
OpenAll(open, ok) ==
    LET f1 == IF ok[1] THEN LowestFree(open) ELSE -1
        o1 == IF ok[1] THEN open \cup {f1} ELSE open
        f2 == IF ok[2] THEN LowestFree(o1) ELSE -1
        o2 == IF ok[2] THEN o1 \cup {f2} ELSE o1
        f3 == IF ok[3] THEN LowestFree(o2) ELSE -1
        o3 == IF ok[3] THEN o2 \cup {f3} ELSE o2
    IN  [fds |-> <<f1, f2, f3>>, open |-> o3]

\* the three "if (fd >= 0) { close(fd); fd = -1; }" of free_rainbow_hat
ClosedBy(fds) == {fds[i] : i \in {j \in 1..3 : fds[j] >= 0}}

\* free_rainbow_hat on memory already freed: the fields read are stale, a
\* field that reads >= 0 is closed, and the memory is freed again
FreeOfFreed(stale, abort) ==
    /\ hUaf' = TRUE
    /\ hBadClose' = (hBadClose \/ ClosedBy(stale) # {})
    /\ kOpen' = kOpen \ ClosedBy(stale)
    /\ hFds' = <<-1, -1, -1>>
    /\ hDoubleFree' = TRUE
    /\ hAbort' = abort
    /\ UNCHANGED hMem

\* free_rainbow_hat on a live handle: close what is open, free the memory.
\* The caller's pointer is left as it is (only the parameter is set NULL).
FreeOfLive ==
    /\ kOpen' = kOpen \ ClosedBy(hFds)
    /\ hFds' = <<-1, -1, -1>>
    /\ hMem' = "freed"
    /\ UNCHANGED <<hUaf, hDoubleFree, hBadClose, hAbort>>

free_rainbow_hat(stale, abort) ==
    /\ hPtr = "dev"
    /\ ~hAbort
    /\ hFrees < MaxFrees
    /\ hFrees' = hFrees + 1
    /\ IF hMem = "live"
       THEN stale = <<-1, -1, -1>> /\ abort = FALSE /\ FreeOfLive
       ELSE FreeOfFreed(stale, abort)
    /\ UNCHANGED <<hPtr, hOp>>

\* free_rainbow_hat(NULL) does nothing
free_null ==
    /\ hPtr = "null"
    /\ ~hAbort
    /\ hOp' = NoOp
    /\ UNCHANGED <<hMem, hFds, hPtr, kOpen, hFrees, hUaf, hDoubleFree, hBadClose, hAbort>>

init_keeps_partial_handle(mallocOk, ok) ==
    /\ hMem # "live"
    /\ ~hAbort
    /\ hFrees' = 0
    /\ IF ~mallocOk
       THEN /\ ok = <<TRUE, TRUE, TRUE>>
            /\ hPtr' = "null"
            /\ UNCHANGED <<hMem, hFds, kOpen>>
       ELSE LET o == OpenAll(kOpen, ok) IN
            /\ kOpen' = o.open
            /\ hFds' = o.fds
            /\ hMem' = "live"
            /\ hPtr' = "dev"
    /\ UNCHANGED <<hUaf, hDoubleFree, hBadClose, hAbort, hOp>>

\* init_rainbow_hat: malloc, three opens, and on any failed open the
\* cleanup path through free_rainbow_hat, which returns no handle
init_rainbow_hat(mallocOk, ok) ==
    /\ hMem # "live"
    /\ ~hAbort
    /\ hFrees' = 0
    /\ IF ~mallocOk
       THEN /\ ok = <<TRUE, TRUE, TRUE>>
            /\ hPtr' = "null"
            /\ UNCHANGED <<hMem, hFds, kOpen>>
       ELSE LET o == OpenAll(kOpen, ok) IN
            IF \E i \in 1..3 : o.fds[i] < 0
            THEN /\ kOpen' = o.open \ ClosedBy(o.fds)
                 /\ hFds' = <<-1, -1, -1>>
                 /\ hMem' = "freed"
                 /\ hPtr' = "null"
            ELSE /\ kOpen' = o.open
                 /\ hFds' = o.fds
                 /\ hMem' = "live"
                 /\ hPtr' = "dev"
    /\ UNCHANGED <<hUaf, hDoubleFree, hBadClose, hAbort, hOp>>

(***************************************************************************)
(* The library's operations on a handle. r is what the endpoint's handler  *)
(* returns to the read or write: a positive byte count or a negative       *)
(* errno; the system call gives the caller -1 for every negative one.      *)
(***************************************************************************)
HandleOps == {"leds_on", "leds_off", "play_tone", "get_btn"}
IoResults == {1, -EIO, -EBUSY}

NullMsg(op) ==
    CASE op = "leds_on" -> "LED-LIGHT-ON: Device-Error (Null-Pointer)!"
      [] op = "leds_off" -> "LED-LIGHT-OFF: Device Error (Null-Pointer)!"
      [] op = "play_tone" -> "Buzzer-Device: Device Error (Null-Pointer)!"
      [] op = "get_btn" -> "Button-Device: Device Error (Null-Pointer)!"

\* the switch of set_leds over bytes_written
set_leds_msg(bw) ==
    CASE bw = -ENOMEM -> "LED-Device: Insufficient memory!"
      [] bw = -ERESTART -> "LED-Device: Device busy!"
      [] bw = -EFAULT -> "LED-Device: Segmentation fault!"
      [] bw = -EINVAL -> "LED-Device: Invalid argument!"
      [] bw = -EIO -> "LED-Device: Device error!"
      [] OTHER -> "LED-Device: Unexpected error occurred!"

set_leds(led_fd, r) ==
    IF led_fd >= 0
    THEN LET bw == write_syscall(r) IN
         [ret |-> IF bw < 0 THEN -1 ELSE 0,
          msg |-> IF bw < 0 THEN set_leds_msg(bw) ELSE NoDiag,
          io |-> led_fd]
    ELSE [ret |-> -1, msg |-> NoDiag, io |-> -1]

\* play_tone past its null check
play_tone(buzzer_fd, r) ==
    IF buzzer_fd >= 0
    THEN LET bw == play_tone_bytes_written(r) IN
         [ret |-> play_tone_ret(bw), msg |-> play_tone_msg(bw), io |-> buzzer_fd]
    ELSE [ret |-> -1, msg |-> NoDiag, io |-> -1]

\* the switch of get_active_button over the result of read()
get_btn_msg(result) ==
    CASE result = -EINVAL -> "Button-Device: Invalid argument!"
      [] result = -EFAULT -> "Button-Device: Segmentation Fault!"
      [] OTHER -> "Button-Device: Unexpected Error occurred!"

get_active_button(buttons_fd, r) ==
    IF buttons_fd >= 0
    THEN LET result == write_syscall(r) IN
         [ret |-> IF result < 0 THEN -1 ELSE 0,
          msg |-> IF result < 0 THEN get_btn_msg(result) ELSE NoDiag,
          io |-> buttons_fd]
    ELSE [ret |-> -1, msg |-> NoDiag, io |-> -1]

FieldOf(op) == CASE op \in {"leds_on", "leds_off"} -> 1
                 [] op = "get_btn" -> 2
                 [] op = "play_tone" -> 3

LibCall(op, fd, r) ==
    CASE op \in {"leds_on", "leds_off"} -> set_leds(fd, r)
      [] op = "play_tone" -> play_tone(fd, r)
      [] op = "get_btn" -> get_active_button(fd, r)

\* one library call with the caller's pointer: NULL, a live handle, or a
\* handle already passed to free_rainbow_hat (its field then reads stale).
\* buf says whether the caller passes an error buffer. write_error hands
\* err_buff to snprintf as it is: with no buffer the diagnostic is written
\* through a null pointer, which the process may or may not survive (crash).
\* dev is what the endpoint returned to the call's read or write.
HandleCall(op, r, stale, buf, crash) ==
    /\ ~hAbort
    /\ hMem = "live" => stale = -1
    /\ hPtr = "null" => (stale = -1 /\ r = 1)
    /\ LET fd == IF hMem = "live" THEN hFds[FieldOf(op)] ELSE stale
           res == IF hPtr = "null"
                  THEN [ret |-> -1, msg |-> NullMsg(op), io |-> -1]
                  ELSE LibCall(op, fd, r)
           nullw == ~buf /\ res.msg # NoDiag
       IN  /\ hOp' = [op |-> op, ret |-> res.ret,
                      msg |-> IF buf THEN res.msg ELSE NoDiag,
                      io |-> res.io, dev |-> IF res.io >= 0 THEN r ELSE 0,
                      buf |-> buf, nullw |-> nullw]
           /\ crash => nullw
           /\ hAbort' = crash
    /\ hUaf' = (hUaf \/ (hPtr = "dev" /\ hMem # "live"))
    /\ UNCHANGED <<hMem, hFds, hPtr, kOpen, hFrees, hDoubleFree, hBadClose>>

InitHandle ==
    /\ hMem = "none"
    /\ hFds = <<-1, -1, -1>>
    /\ hPtr = "null"
    /\ kOpen = StdFds
    /\ hFrees = 0
    /\ hUaf = FALSE
    /\ hDoubleFree = FALSE
    /\ hBadClose = FALSE
    /\ hAbort = FALSE
    /\ hOp = NoOp

HandleInit ==
    /\ \E mallocOk \in BOOLEAN, ok \in [1..3 -> BOOLEAN] : init_rainbow_hat(mallocOk, ok)
    /\ UNCHANGED notHandle
HandleFree ==
    /\ \E stale \in [1..3 -> StaleFds], abort \in BOOLEAN : free_rainbow_hat(stale, abort)
    /\ UNCHANGED notHandle
HandleFreeNull ==
    /\ free_null
    /\ UNCHANGED notHandle

HandleOp ==
    /\ \E op \in HandleOps, r \in IoResults, stale \in StaleFds, buf \in BOOLEAN,
          crash \in BOOLEAN : HandleCall(op, r, stale, buf, crash)
    /\ UNCHANGED notHandle

NextHandle == HandleInit \/ HandleFree \/ HandleFreeNull \/ HandleOp

(***************************************************************************)
(* The library's LED calls on an open handle, through to the driver:       *)
(* led_light_on builds the text, set_leds writes it to the LED endpoint,   *)
(* where rainbow_leds_write handles it; env is what the kernel environment *)
(* does to that write.                                                     *)
(***************************************************************************)
LED_FD == 3
LedOnInvalidMsg == "LED-LIGHT-ON: Invalid argument!"

\* write_error on the caller's buffer: a call that has no diagnostic leaves
\* the buffer as it was
write_error(buf, msg) == IF msg = NoDiag THEN buf ELSE msg

led_light_on(op, ledArg, env) ==
    LET arr == create_led_array(ledArg.pins, ledArg.colors) IN
    /\ libOp' = op
    /\ libArg' = ledArg
    /\ libPrev' = <<libOp, libRet>>
    /\ IF arr.ret # 0
       THEN /\ libWrote' = FALSE
            /\ libRet' = -1
            /\ errBuf' = write_error(errBuf, LedOnInvalidMsg)
            /\ env = "ok"
            /\ UNCHANGED ledVars
       ELSE /\ libWrote' = TRUE
            /\ rainbow_leds_write(arr.text, env)
            /\ libRet' = set_leds(LED_FD, ledRet').ret
            /\ errBuf' = write_error(errBuf, set_leds(LED_FD, ledRet').msg)

\* led_light_off: led_light_on with every pin and the one colour black
led_light_off_one_pin(env) ==
    led_light_on("leds_off",
                 [pins |-> SubSeq(PIN_NUMBERS, 2, 2), colors |-> <<ColABCDEF>>], env)

led_light_off(env) ==
    led_light_on("leds_off", [pins |-> PIN_NUMBERS, colors |-> <<ColBlack>>], env)

InitLib ==
    /\ libOp = "none"
    /\ libArg = [pins |-> <<>>, colors |-> <<>>]
    /\ libWrote = FALSE
    /\ libRet = 0
    /\ errBuf = NoDiag
    /\ libPrev = <<"none", 0>>

LibLedsOn ==
    /\ \E pins \in LibPins, cols \in LibColours, env \in LedEnv :
           led_light_on("leds_on", [pins |-> pins, colors |-> cols], env)
    /\ UNCHANGED notLib

LibLedsOff ==
    /\ \E env \in LedEnv : led_light_off(env)
    /\ UNCHANGED notLib

NextLib == LibLedsOn \/ LibLedsOff

(***************************************************************************)
(* The application: main runs metronome_led_sequence in the main thread    *)
(* and piano_simulation in a second thread; both call the library on the   *)
(* handle main opened. The model starts in main after the two signal()     *)
(* calls. A signal generated for the process is handled by signal_handler  *)
(* at any later point at which the process still runs; main does not       *)
(* leave the process with a signal pending.                                *)
(***************************************************************************)
Running == procState = "running"

\* rainbow_buttons_read: each GPIO level inverted into '1' (pressed) / '0'
button_status(gpio) == [i \in 1..3 |-> IF gpio[i] # 0 THEN "0" ELSE "1"]

BUTTON_NAMES == <<"A", "B", "C">>

btn_active_last(btn_state) ==
    IF \E i \in 1..3 : btn_state[i] = "1"
    THEN BUTTON_NAMES[CHOOSE i \in 1..3 :
                          btn_state[i] = "1" /\ \A j \in (i + 1)..3 : btn_state[j] # "1"]
    ELSE "NUL"

\* the scan of get_active_button over btn_state; "NUL" is '\0'
btn_active(btn_state) ==
    IF \E i \in 1..3 : btn_state[i] = "1"
    THEN BUTTON_NAMES[CHOOSE i \in 1..3 :
                          btn_state[i] = "1" /\ \A j \in 1..(i - 1) : btn_state[j] # "1"]
    ELSE "NUL"

PianoFreqNeverMutes(btn) ==
    CASE btn = "A" -> FREQ_C
      [] btn = "B" -> FREQ_E
      [] btn = "C" -> FREQ_G
      [] OTHER -> FREQ_C

\* the frequency piano_simulation passes to play_tone
PianoFreq(btn) ==
    CASE btn = "A" -> FREQ_C
      [] btn = "B" -> FREQ_E
      [] btn = "C" -> FREQ_G
      [] OTHER -> 0

\* exit status of the process for a value returned from main
StatusOf(ret) == ret % 256

signal_handler_keeps_flag ==
    /\ keep_running' = keep_running

\* signal_handler: keep_running = 0
signal_handler ==
    /\ keep_running' = 0

err_exit_silent(killOk) ==
    killOk /\ UNCHANGED <<sigPending, procState, exitStatus>>

\* err_exit of either loop: with the flag still set, kill(getpid(), SIGTERM),
\* and exit(EXIT_FAILURE) when kill fails
err_exit(killOk) ==
    IF keep_running # 0
    THEN IF killOk
         THEN sigPending' = TRUE /\ UNCHANGED <<procState, exitStatus>>
         ELSE /\ procState' = "exited"
              /\ exitStatus' = EXIT_FAILURE
              /\ UNCHANGED sigPending
    ELSE killOk /\ UNCHANGED <<sigPending, procState, exitStatus>>

\* main: init_rainbow_hat, and return -1 when it gives no handle
MainInit(mallocOk, ok) ==
    /\ Running /\ mpc = "m_init"
    /\ init_rainbow_hat(mallocOk, ok)
    /\ IF hPtr' = "null"
       THEN /\ procState' = "exited"
            /\ exitStatus' = StatusOf(-1)
            /\ mpc' = "m_done"
       ELSE /\ mpc' = "m_create"
            /\ UNCHANGED <<procState, exitStatus>>
    /\ UNCHANGED <<keep_running, sigPending, extSent, beat, seqRet, ppc, pianoRet,
                   activeBtn, toneOut, fatal>>

\* main: pthread_create, exit(EXIT_FAILURE) when it fails, else the call
\* of metronome_led_sequence (dev and err_buff are not null)
MainCreate(ok) ==
    /\ Running /\ mpc = "m_create"
    /\ IF ok
       THEN /\ ppc' = "p_while"
            /\ mpc' = "seq_while"
            /\ UNCHANGED <<procState, exitStatus>>
       ELSE /\ procState' = "exited"
            /\ exitStatus' = EXIT_FAILURE
            /\ UNCHANGED <<ppc, mpc>>
    /\ UNCHANGED <<keep_running, sigPending, extSent, beat, seqRet, pianoRet,
                   activeBtn, toneOut, fatal>>
    /\ UNCHANGED handleVars

\* while (keep_running): start the bar with beat 1, or return 0
SeqWhile ==
    /\ Running /\ mpc = "seq_while"
    /\ IF keep_running # 0
       THEN beat' = 1 /\ mpc' = "seq_on" /\ UNCHANGED seqRet
       ELSE seqRet' = 0 /\ mpc' = "m_join" /\ UNCHANGED beat
    /\ UNCHANGED <<keep_running, sigPending, extSent, ppc, pianoRet, activeBtn,
                   toneOut, procState, exitStatus, fatal>>
    /\ UNCHANGED handleVars

SeqLedsOnThenChecksFlag(r) ==
    /\ Running /\ mpc = "seq_on"
    /\ HandleCall("leds_on", r, -1, TRUE, FALSE)
    /\ IF hOp'.ret < 0
       THEN mpc' = "seq_err" /\ fatal' = fatal \cup {"seq"} /\ UNCHANGED seqRet
       ELSE IF keep_running = 0
       THEN mpc' = "m_join" /\ seqRet' = 0 /\ UNCHANGED fatal
       ELSE mpc' = "seq_off" /\ UNCHANGED <<fatal, seqRet>>
    /\ UNCHANGED <<keep_running, sigPending, extSent, beat, ppc, pianoRet,
                   activeBtn, toneOut, procState, exitStatus>>

\* dev->leds_on for the beat, then usleep(sleep_duration_us)
SeqLedsOn(r) ==
    /\ Running /\ mpc = "seq_on"
    /\ HandleCall("leds_on", r, -1, TRUE, FALSE)
    /\ IF hOp'.ret < 0
       THEN mpc' = "seq_err" /\ fatal' = fatal \cup {"seq"}
       ELSE mpc' = "seq_off" /\ UNCHANGED fatal
    /\ UNCHANGED <<keep_running, sigPending, extSent, beat, seqRet, ppc, pianoRet,
                   activeBtn, toneOut, procState, exitStatus>>

\* dev->leds_off, then the sleep for the rest of the beat
SeqLedsOff(r) ==
    /\ Running /\ mpc = "seq_off"
    /\ HandleCall("leds_off", r, -1, TRUE, FALSE)
    /\ IF hOp'.ret < 0
       THEN mpc' = "seq_err" /\ fatal' = fatal \cup {"seq"}
       ELSE mpc' = "seq_for" /\ UNCHANGED fatal
    /\ UNCHANGED <<keep_running, sigPending, extSent, beat, seqRet, ppc, pianoRet,
                   activeBtn, toneOut, procState, exitStatus>>

\* for (beat = 1; beat <= 3; beat++): the next beat of the bar, or back to
\* the while
SeqFor ==
    /\ Running /\ mpc = "seq_for"
    /\ IF beat + 1 <= 3
       THEN beat' = beat + 1 /\ mpc' = "seq_on"
       ELSE mpc' = "seq_while" /\ UNCHANGED beat
    /\ UNCHANGED <<keep_running, sigPending, extSent, seqRet, ppc, pianoRet,
                   activeBtn, toneOut, procState, exitStatus, fatal>>
    /\ UNCHANGED handleVars

\* err_exit of metronome_led_sequence, return -1
SeqErr(killOk) ==
    /\ Running /\ mpc = "seq_err"
    /\ err_exit(killOk)
    /\ seqRet' = -1
    /\ mpc' = "m_join"
    /\ UNCHANGED <<keep_running, extSent, beat, ppc, pianoRet, activeBtn, toneOut, fatal>>
    /\ UNCHANGED handleVars

\* while (keep_running) of piano_simulation: poll again, or return 0
PianoWhile ==
    /\ Running /\ ppc = "p_while"
    /\ IF keep_running # 0
       THEN ppc' = "p_read" /\ UNCHANGED pianoRet
       ELSE ppc' = "p_ret" /\ pianoRet' = 0
    /\ UNCHANGED <<keep_running, sigPending, extSent, mpc, beat, seqRet, activeBtn,
                   toneOut, procState, exitStatus, fatal>>
    /\ UNCHANGED handleVars

\* dev->get_btn: the three GPIO levels as the driver reports them
PianoRead(r, gpio) ==
    /\ Running /\ ppc = "p_read"
    /\ HandleCall("get_btn", r, -1, TRUE, FALSE)
    /\ IF hOp'.ret < 0
       THEN /\ ppc' = "p_err" /\ fatal' = fatal \cup {"piano"}
            /\ activeBtn' = "NUL"
            /\ gpio = <<1, 1, 1>>
       ELSE /\ ppc' = "p_tone" /\ UNCHANGED fatal
            /\ activeBtn' = btn_active(button_status(gpio))
    /\ UNCHANGED <<keep_running, sigPending, extSent, mpc, beat, seqRet, pianoRet,
                   toneOut, procState, exitStatus>>

\* dev->play_tone with the frequency of the active button, 0 for none
PianoTone(r) ==
    /\ Running /\ ppc = "p_tone"
    /\ HandleCall("play_tone", r, -1, TRUE, FALSE)
    /\ toneOut' = PianoFreq(activeBtn)
    /\ IF hOp'.ret < 0
       THEN ppc' = "p_err" /\ fatal' = fatal \cup {"piano"}
       ELSE ppc' = "p_sleep" /\ UNCHANGED fatal
    /\ UNCHANGED <<keep_running, sigPending, extSent, mpc, beat, seqRet, pianoRet,
                   activeBtn, procState, exitStatus>>

\* usleep(10000)
PianoSleep ==
    /\ Running /\ ppc = "p_sleep"
    /\ ppc' = "p_while"
    /\ UNCHANGED <<keep_running, sigPending, extSent, mpc, beat, seqRet, pianoRet,
                   activeBtn, toneOut, procState, exitStatus, fatal>>
    /\ UNCHANGED handleVars

\* err_exit of piano_simulation, return -1
PianoErr(killOk) ==
    /\ Running /\ ppc = "p_err"
    /\ err_exit(killOk)
    /\ pianoRet' = -1
    /\ ppc' = "p_ret"
    /\ UNCHANGED <<keep_running, extSent, mpc, beat, seqRet, activeBtn, toneOut, fatal>>
    /\ UNCHANGED handleVars

\* pthread_join(piano_thread, &piano_ret_val)
pthread_join_returns_at_once ==
    /\ Running /\ mpc = "m_join"
    /\ mpc' = "m_free"
    /\ UNCHANGED <<keep_running, sigPending, extSent, beat, seqRet, ppc, pianoRet,
                   activeBtn, toneOut, procState, exitStatus, fatal>>
    /\ UNCHANGED handleVars

MainJoin ==
    /\ Running /\ mpc = "m_join"
    /\ ppc = "p_ret"
    /\ mpc' = "m_free"
    /\ UNCHANGED <<keep_running, sigPending, extSent, beat, seqRet, ppc, pianoRet,
                   activeBtn, toneOut, procState, exitStatus, fatal>>
    /\ UNCHANGED handleVars

\* free_rainbow_hat(dev)
MainFree ==
    /\ Running /\ mpc = "m_free"
    /\ free_rainbow_hat(<<-1, -1, -1>>, FALSE)
    /\ mpc' = "m_ret"
    /\ UNCHANGED <<keep_running, sigPending, extSent, beat, seqRet, ppc, pianoRet,
                   activeBtn, toneOut, procState, exitStatus, fatal>>

\* return ret: ret is what metronome_led_sequence returned
MainReturn ==
    /\ Running /\ mpc = "m_ret"
    /\ ~sigPending
    /\ mpc' = "m_done"
    /\ procState' = "exited"
    /\ exitStatus' = StatusOf(seqRet)
    /\ UNCHANGED <<keep_running, sigPending, extSent, beat, seqRet, ppc, pianoRet,
                   activeBtn, toneOut, fatal>>
    /\ UNCHANGED handleVars

\* a SIGINT or SIGTERM from outside the process
ExternalSignal ==
    /\ Running /\ mpc \notin {"m_init", "m_create"}
    /\ extSent < MaxExtSignals
    /\ extSent' = extSent + 1
    /\ sigPending' = TRUE
    /\ UNCHANGED <<keep_running, mpc, beat, seqRet, ppc, pianoRet, activeBtn, toneOut,
                   procState, exitStatus, fatal>>
    /\ UNCHANGED handleVars

\* the pending signal is handled
SignalDelivered ==
    /\ Running /\ sigPending
    /\ signal_handler
    /\ sigPending' = FALSE
    /\ UNCHANGED <<extSent, mpc, beat, seqRet, ppc, pianoRet, activeBtn, toneOut,
                   procState, exitStatus, fatal>>
    /\ UNCHANGED handleVars

InitApp ==
    /\ keep_running = 1
    /\ sigPending = FALSE
    /\ extSent = 0
    /\ mpc = "m_init"
    /\ beat = 1
    /\ seqRet = 0
    /\ ppc = "p_none"
    /\ pianoRet = 0
    /\ activeBtn = "NUL"
    /\ toneOut = 0
    /\ procState = "running"
    /\ exitStatus = 0
    /\ fatal = {}

Gpio == [1..3 -> {0, 1}]

AppInit ==
    /\ \E mallocOk \in BOOLEAN, ok \in [1..3 -> BOOLEAN] : MainInit(mallocOk, ok)
    /\ UNCHANGED notApp
AppCreate == (\E ok \in BOOLEAN : MainCreate(ok)) /\ UNCHANGED notApp
AppSeqWhile == SeqWhile /\ UNCHANGED notApp
AppSeqOn == (\E r \in IoResults : SeqLedsOn(r)) /\ UNCHANGED notApp
AppSeqOff == (\E r \in IoResults : SeqLedsOff(r)) /\ UNCHANGED notApp
AppSeqFor == SeqFor /\ UNCHANGED notApp
AppSeqErr == (\E killOk \in BOOLEAN : SeqErr(killOk)) /\ UNCHANGED notApp
AppPianoWhile == PianoWhile /\ UNCHANGED notApp
AppPianoRead == (\E r \in IoResults, gpio \in Gpio : PianoRead(r, gpio)) /\ UNCHANGED notApp
AppPianoTone == (\E r \in IoResults : PianoTone(r)) /\ UNCHANGED notApp
AppPianoSleep == PianoSleep /\ UNCHANGED notApp
AppPianoErr == (\E killOk \in BOOLEAN : PianoErr(killOk)) /\ UNCHANGED notApp
AppJoin == MainJoin /\ UNCHANGED notApp
AppFree == MainFree /\ UNCHANGED notApp
AppReturn == MainReturn /\ UNCHANGED notApp
AppExternalSignal == ExternalSignal /\ UNCHANGED notApp
AppSignalDelivered == SignalDelivered /\ UNCHANGED notApp

MainThread == AppInit \/ AppCreate \/ AppSeqWhile \/ AppSeqOn \/ AppSeqOff \/ AppSeqFor
              \/ AppSeqErr \/ AppJoin \/ AppFree \/ AppReturn
PianoThread == AppPianoWhile \/ AppPianoRead \/ AppPianoTone \/ AppPianoSleep \/ AppPianoErr

NextApp == MainThread \/ PianoThread \/ AppExternalSignal \/ AppSignalDelivered

(***************************************************************************)
(* The button endpoint and get_active_button on an open handle. gpio is    *)
(* what gpiod_get_value gives for the three buttons, a level or a negative *)
(* error; fault says whether copy_to_user fails.                           *)
(***************************************************************************)
BUTTONS_FD == 4
GpioReads == [1..3 -> {0, 1, -EIO}]
ReadLens == {BTN_STATUS_SIZE, 2}

\* rainbow_buttons_read: the value returned to the read
rainbow_buttons_read(len, gpio, fault) ==
    IF len < BTN_STATUS_SIZE THEN -EINVAL
    ELSE IF \E i \in 1..3 : gpio[i] < 0
    THEN gpio[CHOOSE i \in 1..3 : gpio[i] < 0 /\ \A j \in 1..(i - 1) : gpio[j] >= 0]
    ELSE IF fault THEN -EFAULT
    ELSE BTN_STATUS_SIZE

\* *offset += sizeof(button_status) of a read that succeeds
OffsetAfter(r) == IF r >= 0 THEN btnOffset + BTN_STATUS_SIZE ELSE btnOffset

\* a read of the endpoint that does not come from the library
ButtonsRead(len, gpio, fault) ==
    LET r == rainbow_buttons_read(len, gpio, fault) IN
    /\ btnOffset < MaxReads * BTN_STATUS_SIZE
    /\ btnOp' = "read"
    /\ btnGpio' = gpio
    /\ btnRet' = r
    /\ btnOffset' = OffsetAfter(r)
    /\ UNCHANGED <<btnActive, btnLibRet, btnErrBuf>>

\* get_active_button on the open handle: read 3 bytes, scan them
LibGetBtn(gpio, fault) ==
    LET r == rainbow_buttons_read(BTN_STATUS_SIZE, gpio, fault)
        res == get_active_button(BUTTONS_FD, r)
    IN  /\ btnOffset < MaxReads * BTN_STATUS_SIZE
        /\ btnOp' = "get_btn"
        /\ btnGpio' = gpio
        /\ btnRet' = r
        /\ btnOffset' = OffsetAfter(r)
        /\ btnLibRet' = res.ret
        /\ btnErrBuf' = write_error(btnErrBuf, res.msg)
        /\ btnActive' = IF r >= 0 THEN btn_active(button_status(gpio)) ELSE "NUL"

InitBtn ==
    /\ btnOp = "none"
    /\ btnGpio = <<1, 1, 1>>
    /\ btnRet = 0
    /\ btnOffset = 0
    /\ btnActive = "NUL"
    /\ btnLibRet = 0
    /\ btnErrBuf = NoDiag

BtnDirectRead ==
    /\ \E len \in ReadLens, gpio \in GpioReads, fault \in BOOLEAN :
           ButtonsRead(len, gpio, fault)
    /\ UNCHANGED notBtn

BtnLibRead ==
    /\ \E gpio \in GpioReads, fault \in BOOLEAN : LibGetBtn(gpio, fault)
    /\ UNCHANGED notBtn

NextBtn == BtnDirectRead \/ BtnLibRead

(***************************************************************************)
(* metronome_led_sequence on an open handle, with the colours main gives   *)
(* it. Its leds_on and leds_off are led_light_on and led_light_off, whose  *)
(* write reaches rainbow_leds_write; env is what the kernel environment    *)
(* does to that write, op what the two clock_gettime calls measure.        *)
(***************************************************************************)
NoArg == [pins |-> <<>>, colors |-> <<>>]
NoSleep == [called |-> FALSE, usec |-> 0]

\* the tempo main calls metronome_led_sequence with
MAIN_BPM == 90

\* measured times of a leds_on / leds_off pair in the running Sequencer:
\* shorter and longer than the beat
SeqOpTimes == {5000, 700000}

\* tempi and measured times for the beat arithmetic on its own: times
\* below, at and above the beat durations of the tempi
Bpms == {1, 7, 30, 60, 90, 100, 120, 240, 1000, 60000001}
OpTimes == {0, 1, 5000, 100000, 250000, 500000, 666666, 666667, 700000, 1000000,
            60000000, 2000000000}

\* (int) (60.0 / bpm * 1000000): for the tempi of Bpms the double product
\* truncates to the integer quotient
BeatDurationOf(b) == 60000000 \div b

remaining_sleep_unguarded(beat_us, op) ==
    [called |-> TRUE, usec |-> beat_us - op]

\* adjusted_sleep_duration_us = beat_duration_us - operation_time_us, and
\* the usleep that is called with it only when it is > 0. usleep takes an
\* unsigned argument; usec is the signed value handed to it.
remaining_sleep(beat_us, op) ==
    LET adjusted_sleep_duration_us == beat_us - op IN
    IF adjusted_sleep_duration_us > 0
    THEN [called |-> TRUE, usec |-> adjusted_sleep_duration_us]
    ELSE NoSleep

\* a caller opens the handle and calls metronome_led_sequence(dev, b, ...)
SeqEnter(b) ==
    /\ Running /\ mpc = "m_init"
    /\ init_rainbow_hat(TRUE, <<TRUE, TRUE, TRUE>>)
    /\ bpm' = b
    /\ beat_duration_us' = BeatDurationOf(b)
    /\ mpc' = "seq_while"
    /\ UNCHANGED <<keep_running, sigPending, extSent, beat, seqRet, ppc, pianoRet,
                   activeBtn, toneOut, procState, exitStatus, fatal>>
    /\ UNCHANGED <<operation_time_us, slept, seqLastOn>>
    /\ UNCHANGED <<ledVars, toneVars, libVars, btnVars, lockVars, scratchVars, probeVars>>

\* dev->leds_on(dev, beat_arg, err_buff) carried through to the endpoint
SeqOnDevice(env) ==
    /\ led_light_on("leds_on", beat_arg(beat, COLOR_RED, COLOR_PURPLE), env)
    /\ SeqLedsOn(ledRet')
    /\ seqLastOn' = IF libOp = "leds_on" THEN libArg ELSE seqLastOn
    /\ UNCHANGED <<bpm, beat_duration_us, operation_time_us, slept>>
    /\ UNCHANGED <<toneVars, btnVars, lockVars, scratchVars, probeVars>>

\* dev->leds_off(dev, err_buff) carried through to the endpoint, then the
\* measurement and the sleep for the rest of the beat
SeqOffDevice(env, op) ==
    /\ led_light_off(env)
    /\ SeqLedsOff(ledRet')
    /\ IF hOp'.ret < 0
       THEN \* err_exit is taken before the second clock_gettime
            op = 5000 /\ UNCHANGED <<operation_time_us, slept>>
       ELSE /\ operation_time_us' = op
            /\ slept' = remaining_sleep(beat_duration_us, op)
    /\ seqLastOn' = IF libOp = "leds_on" THEN libArg ELSE seqLastOn
    /\ UNCHANGED <<bpm, beat_duration_us>>
    /\ UNCHANGED <<toneVars, btnVars, lockVars, scratchVars, probeVars>>

InitSeq ==
    /\ bpm = 0
    /\ beat_duration_us = 0
    /\ operation_time_us = 0
    /\ slept = NoSleep
    /\ seqLastOn = NoArg

\* the arithmetic of one beat of metronome_led_sequence(dev, b, ...) in
\* which the leds_on / leds_off pair took op microseconds
BeatSleep(b, op) ==
    /\ bpm' = b
    /\ beat_duration_us' = BeatDurationOf(b)
    /\ operation_time_us' = op
    /\ slept' = remaining_sleep(BeatDurationOf(b), op)
    /\ UNCHANGED seqLastOn
    /\ UNCHANGED <<ledVars, toneVars, handleVars, appVars, libVars, btnVars, lockVars, scratchVars, probeVars>>

BeatStep == \E b \in Bpms, op \in OpTimes : BeatSleep(b, op)

NextBeat == BeatStep

DevSeqEnter == SeqEnter(MAIN_BPM)
DevSeqOn == \E env \in LedEnv : SeqOnDevice(env)
DevSeqOff == \E env \in LedEnv, op \in SeqOpTimes : SeqOffDevice(env, op)

NextSeq == DevSeqEnter \/ AppSeqWhile \/ DevSeqOn \/ DevSeqOff \/ AppSeqFor \/ AppSeqErr
           \/ AppExternalSignal \/ AppSignalDelivered

(***************************************************************************)
(* rainbow_leds_write called from several threads at once. Each step below  *)
(* is one stretch of the handler between two points where another thread   *)
(* can run; parse_led_colors stores one pair per step.                     *)
(***************************************************************************)
LedWriters == 1..NumLedWriters

\* a command of two pairs, clearLeds, a command whose second pair names a
\* pin past the last LED, and one longer than the endpoint takes
LockCommands == {
    Join(<<<<"1", ":">> \o ColABCDEF, <<"3", ":">> \o ColFEDCBA>>),
    ClearText,
    Join(<<<<"1", ":">> \o ColABCDEF, <<"7", ":">> \o ColABCDEF>>),
    ClearText \o <<",", "1", ":">> \o ColABCDEF
}

\* out: kfree(kbuf) and return ret
LwReturn(w, ret) ==
    /\ lret' = [lret EXCEPT ![w] = ret]
    /\ lcmd' = [lcmd EXCEPT ![w] = <<>>]
    /\ lpc' = [lpc EXCEPT ![w] = "idle"]

\* the length check and kmalloc, both before the lock
LwEnter(w, buf, nomem) ==
    /\ lpc[w] = "idle"
    /\ IF Len(buf) > MAX_EXPECTED_INPUT_LENGTH THEN LwReturn(w, -EINVAL)
       ELSE IF nomem THEN LwReturn(w, -ENOMEM)
       ELSE /\ lpc' = [lpc EXCEPT ![w] = "lock"]
            /\ lcmd' = [lcmd EXCEPT ![w] = buf]
            /\ lret' = [lret EXCEPT ![w] = 0]
    /\ UNCHANGED <<spiLock, lups, serial, leds, frame>>

\* mutex_lock_interruptible taking the lock: only when nobody holds it
mutex_lock_not_exclusive(w) == spiLock' = w

mutex_lock_after_tone_lock(w) == spiLock = 0 /\ buzLock = 0 /\ spiLock' = w

mutex_lock(w) == spiLock = 0 /\ spiLock' = w

LwLock(w) ==
    /\ lpc[w] = "lock"
    /\ mutex_lock(w)
    /\ lpc' = [lpc EXCEPT ![w] = "copy"]
    /\ UNCHANGED <<lcmd, lups, lret, serial, leds, frame>>

\* a signal ends the wait for the lock
LwLockInterrupted(w) ==
    /\ lpc[w] = "lock"
    /\ LwReturn(w, -ERESTARTSYS)
    /\ UNCHANGED <<spiLock, lups, serial, leds, frame>>

LwCopy(w, fault) ==
    /\ lpc[w] = "copy"
    /\ IF fault
       THEN /\ lret' = [lret EXCEPT ![w] = -EFAULT]
            /\ lpc' = [lpc EXCEPT ![w] = "unlock"]
            /\ UNCHANGED <<lups, serial>>
       ELSE /\ lups' = [lups EXCEPT ![w] = Parsed[lcmd[w]].ups]
            /\ serial' = StoreAll(serial, Parsed[lcmd[w]].ups)
            /\ lpc' = [lpc EXCEPT ![w] = "parse"]
            /\ lret' = lret
    /\ UNCHANGED <<spiLock, lcmd, leds, frame>>

LwParse(w) ==
    /\ lpc[w] = "parse"
    /\ IF lups[w] # <<>>
       THEN /\ leds' = StoreAll(leds, <<Head(lups[w])>>)
            /\ lups' = [lups EXCEPT ![w] = Tail(lups[w])]
            /\ UNCHANGED <<lpc, lret>>
       ELSE IF Parsed[lcmd[w]].ret # 0
       THEN /\ lret' = [lret EXCEPT ![w] = -EINVAL]
            /\ lpc' = [lpc EXCEPT ![w] = "unlock"]
            /\ UNCHANGED <<leds, lups>>
       ELSE /\ lpc' = [lpc EXCEPT ![w] = "send"]
            /\ UNCHANGED <<leds, lups, lret>>
    /\ UNCHANGED <<spiLock, lcmd, serial, frame>>

LwSend(w, spiOk) ==
    /\ lpc[w] = "send"
    /\ frame' = IF spiOk THEN update_leds_buffer(leds) ELSE <<>>
    /\ lret' = [lret EXCEPT ![w] = IF spiOk THEN Len(lcmd[w]) ELSE -EIO]
    /\ lpc' = [lpc EXCEPT ![w] = "unlock"]
    /\ UNCHANGED <<spiLock, lcmd, lups, serial, leds>>

LwUnlock(w) ==
    /\ lpc[w] = "unlock"
    /\ spiLock' = 0
    /\ LwReturn(w, lret[w])
    /\ UNCHANGED <<lups, serial, leds, frame>>

InitLock ==
    /\ spiLock = 0
    /\ lpc = [w \in LedWriters |-> "idle"]
    /\ lcmd = [w \in LedWriters |-> <<>>]
    /\ lups = [w \in LedWriters |-> <<>>]
    /\ lret = [w \in LedWriters |-> 0]
    /\ serial = [i \in 0..(NUMBER_LEDS - 1) |-> Black]

LockEnter ==
    /\ \E w \in LedWriters, buf \in LockCommands, nomem \in BOOLEAN : LwEnter(w, buf, nomem)
    /\ UNCHANGED notLock
LockTake == (\E w \in LedWriters : LwLock(w)) /\ UNCHANGED notLock
LockInterrupted == (\E w \in LedWriters : LwLockInterrupted(w)) /\ UNCHANGED notLock
LockCopy == (\E w \in LedWriters, fault \in BOOLEAN : LwCopy(w, fault)) /\ UNCHANGED notLock
LockParse == (\E w \in LedWriters : LwParse(w)) /\ UNCHANGED notLock
LockSend == (\E w \in LedWriters, spiOk \in BOOLEAN : LwSend(w, spiOk)) /\ UNCHANGED notLock
LockRelease == (\E w \in LedWriters : LwUnlock(w)) /\ UNCHANGED notLock

NextLock ==
    LockEnter \/ LockTake \/ LockInterrupted \/ LockCopy \/ LockParse \/ LockSend
    \/ LockRelease

(***************************************************************************)
(* The two tasks of the application on the driver: the Sequencer is the    *)
(* one writer of the LED endpoint (thread 1 of the LED writers), the Input *)
(* task the one writer of the tone endpoint through play_tone (thread 1 of *)
(* the tone writers). The steps of their device calls interleave freely.   *)
(***************************************************************************)
SequencerTask ==
    /\ \/ \E buf \in LockCommands, nomem \in BOOLEAN : LwEnter(1, buf, nomem)
       \/ LwLock(1)
       \/ LwLockInterrupted(1)
       \/ \E fault \in BOOLEAN : LwCopy(1, fault)
       \/ LwParse(1)
       \/ \E spiOk \in BOOLEAN : LwSend(1, spiOk)
       \/ LwUnlock(1)
    /\ UNCHANGED notLock

InputTask ==
    /\ \/ \E f \in Freqs : BuzzerWriteEnter(1, f, SIZEOF_ULONG, TRUE)
       \/ BuzzerTryLock(1)
       \/ \E fault \in BOOLEAN : BuzzerCopy(1, fault)
       \/ \E rc \in PwmConfigResults : BuzzerConfig(1, rc)
       \/ BuzzerUnlock(1)
    /\ UNCHANGED notTone

NextTasks == SequencerTask \/ InputTask

(***************************************************************************)
(* led_light_on / led_light_off called by two tasks on the same handle.    *)
(* create_led_array builds the command in the static LED_ARRAY and         *)
(* set_leds writes what LED_ARRAY holds; a step is one statement on it.    *)
(***************************************************************************)
Callers == {"Sequencer", "Input"}

NoLedArg == [pins |-> <<>>, colors |-> <<>>]
\* setLeds on two pins with a colour each, and the led_arg of led_light_off
TwoPinArg == [pins |-> <<1, 3>>, colors |-> <<ColABCDEF, ColFEDCBA>>]
ClearArg == [pins |-> PIN_NUMBERS, colors |-> <<ColBlack>>]
ScratchArgs == {TwoPinArg, ClearArg, NoLedArg}

\* led_light_on up to the range check of create_led_array
ScratchEnter(c, arg) ==
    /\ cpc[c] = "idle"
    /\ cArg' = [cArg EXCEPT ![c] = arg]
    /\ cWrote' = [cWrote EXCEPT ![c] = <<>>]
    /\ IF create_led_array(arg.pins, arg.colors).ret = -1
       THEN /\ cRet' = [cRet EXCEPT ![c] = -1]
            /\ UNCHANGED cpc
       ELSE /\ cpc' = [cpc EXCEPT ![c] = "memset"]
            /\ cRet' = [cRet EXCEPT ![c] = 0]
    /\ UNCHANGED <<LED_ARRAY, cIdx>>

\* memset(LED_ARRAY, '\0', sizeof(LED_ARRAY));
ScratchMemset(c) ==
    /\ cpc[c] = "memset"
    /\ LED_ARRAY' = <<>>
    /\ cIdx' = [cIdx EXCEPT ![c] = 0]
    /\ cpc' = [cpc EXCEPT ![c] = "loop"]
    /\ UNCHANGED <<cArg, cRet, cWrote>>

\* one round of the loop: snprintf into tmp, the overflow check, strcat
ScratchAppend(c) ==
    /\ cpc[c] = "loop"
    /\ LET pins == cArg[c].pins
           idx == cIdx[c]
           tmp == (IF idx > 0 THEN <<",">> ELSE <<>>) \o DecText(pins[idx + 1])
                  \o <<":">> \o ColourFor(idx, Len(pins), cArg[c].colors)
       IN  IF Len(LED_ARRAY) + Len(tmp) >= LED_ARRAY_SIZE
           THEN /\ cRet' = [cRet EXCEPT ![c] = -1]
                /\ cpc' = [cpc EXCEPT ![c] = "idle"]
                /\ UNCHANGED <<LED_ARRAY, cIdx>>
           ELSE /\ LED_ARRAY' = LED_ARRAY \o tmp
                /\ cIdx' = [cIdx EXCEPT ![c] = idx + 1]
                /\ cpc' = [cpc EXCEPT ![c] = IF idx + 1 < Len(pins) THEN "loop" ELSE "write"]
                /\ UNCHANGED cRet
    /\ UNCHANGED <<cArg, cWrote>>

\* set_leds: write(led_fd, LED_ARRAY, strlen(LED_ARRAY)), accepted or not
ScratchWrite(c, accepted) ==
    /\ cpc[c] = "write"
    /\ cWrote' = [cWrote EXCEPT ![c] = LED_ARRAY]
    /\ cRet' = [cRet EXCEPT ![c] = IF accepted THEN 0 ELSE -1]
    /\ cpc' = [cpc EXCEPT ![c] = "idle"]
    /\ UNCHANGED <<LED_ARRAY, cArg, cIdx>>

InitScratch ==
    /\ LED_ARRAY = <<>>
    /\ cpc = [c \in Callers |-> "idle"]
    /\ cArg = [c \in Callers |-> NoLedArg]
    /\ cIdx = [c \in Callers |-> 0]
    /\ cRet = [c \in Callers |-> 0]
    /\ cWrote = [c \in Callers |-> <<>>]

ScratchCall ==
    (\E c \in Callers, arg \in ScratchArgs : ScratchEnter(c, arg)) /\ UNCHANGED notScratch
ScratchClear == (\E c \in Callers : ScratchMemset(c)) /\ UNCHANGED notScratch
ScratchBuild == (\E c \in Callers : ScratchAppend(c)) /\ UNCHANGED notScratch
ScratchSend ==
    (\E c \in Callers, accepted \in BOOLEAN : ScratchWrite(c, accepted)) /\ UNCHANGED notScratch

NextScratch == ScratchCall \/ ScratchClear \/ ScratchBuild \/ ScratchSend

(***************************************************************************)
(* Module initialisation and the probe / remove functions. fail names the  *)
(* step of a function that fails, err the error that step reports.         *)
(***************************************************************************)
SetupErrs == {-ENOMEM, -EBUSY}
SpiProbeSteps == {"none", "kzalloc", "misc_leds"}
PlatformProbeSteps == {"none", "kzalloc", "gpios", "ndescs", "misc_buttons", "pwm", "misc_buzzer"}

rainbow_hat_spi_driver_remove ==
    IF devState["spi"] = "bound" THEN {"leds"} ELSE {}

rainbow_hat_platform_driver_remove ==
    IF devState["platform"] = "bound" THEN {"buttons", "buzzer"} ELSE {}

\* rainbow_init up to the return of spi_register_driver
rainbow_init_spi(ok, err) ==
    /\ modState = "out"
    /\ IF ok
       THEN /\ drivers' = drivers \cup {"spi"}
            /\ modState' = "spi"
            /\ UNCHANGED initRet
       ELSE /\ initRet' = err
            /\ UNCHANGED <<drivers, modState>>
    /\ UNCHANGED <<devState, misc, probeRet>>

\* rainbow_init from platform_driver_register on; on its failure
\* spi_unregister_driver, which removes a bound SPI device
rainbow_init_platform(ok, err) ==
    /\ modState = "spi"
    /\ IF ok
       THEN /\ drivers' = drivers \cup {"platform"}
            /\ modState' = "in"
            /\ initRet' = 0
            /\ UNCHANGED <<devState, misc>>
       ELSE /\ drivers' = drivers \ {"spi"}
            /\ misc' = misc \ rainbow_hat_spi_driver_remove
            /\ devState' = [devState EXCEPT !["spi"] = "none"]
            /\ modState' = "out"
            /\ initRet' = err
    /\ UNCHANGED probeRet

rainbow_exit ==
    /\ modState = "in"
    /\ drivers' = {}
    /\ misc' = (misc \ rainbow_hat_spi_driver_remove) \ rainbow_hat_platform_driver_remove
    /\ devState' = [d \in DOMAIN devState |-> "none"]
    /\ modState' = "out"
    /\ UNCHANGED <<initRet, probeRet>>

rainbow_hat_spi_driver_probe(fail, err) ==
    /\ "spi" \in drivers /\ devState["spi"] = "none"
    /\ fail = "kzalloc" => err = -ENOMEM
    /\ fail = "none" => err = -ENOMEM
    /\ IF fail = "none"
       THEN /\ misc' = misc \cup {"leds"}
            /\ devState' = [devState EXCEPT !["spi"] = "bound"]
            /\ probeRet' = [probeRet EXCEPT !["spi"] = 0]
       ELSE /\ devState' = [devState EXCEPT !["spi"] = "failed"]
            /\ probeRet' = [probeRet EXCEPT !["spi"] = err]
            /\ UNCHANGED misc
    /\ UNCHANGED <<modState, drivers, initRet>>

\* the misc devices registered by the time the probe reaches step fail
RegisteredBefore(fail) ==
    CASE fail \in {"kzalloc", "gpios", "ndescs", "misc_buttons"} -> {}
      [] fail \in {"pwm", "misc_buzzer"} -> {"buttons"}
      [] fail = "none" -> {"buttons", "buzzer"}

rainbow_hat_platform_driver_probe(fail, err) ==
    /\ "platform" \in drivers /\ devState["platform"] = "none"
    /\ fail = "kzalloc" => err = -ENOMEM
    /\ fail = "none" => err = -ENOMEM
    /\ misc' = misc \cup RegisteredBefore(fail)
    /\ devState' = [devState EXCEPT !["platform"] = IF fail = "none" THEN "bound" ELSE "failed"]
    /\ probeRet' = [probeRet EXCEPT !["platform"] =
                       IF fail = "none" THEN 0
                       ELSE IF fail = "ndescs" THEN -EINVAL
                       ELSE err]
    /\ UNCHANGED <<modState, drivers, initRet>>

InitProbe ==
    /\ modState = "out"
    /\ drivers = {}
    /\ devState = [d \in {"spi", "platform"} |-> "none"]
    /\ misc = {}
    /\ initRet = 0
    /\ probeRet = [d \in {"spi", "platform"} |-> 0]

ModuleInitSpi ==
    (\E ok \in BOOLEAN, err \in SetupErrs : rainbow_init_spi(ok, err)) /\ UNCHANGED notProbe
ModuleInitPlatform ==
    (\E ok \in BOOLEAN, err \in SetupErrs : rainbow_init_platform(ok, err)) /\ UNCHANGED notProbe
ModuleExit == rainbow_exit /\ UNCHANGED notProbe
SpiProbe ==
    /\ \E fail \in SpiProbeSteps, err \in SetupErrs : rainbow_hat_spi_driver_probe(fail, err)
    /\ UNCHANGED notProbe
PlatformProbe ==
    /\ \E fail \in PlatformProbeSteps, err \in SetupErrs :
           rainbow_hat_platform_driver_probe(fail, err)
    /\ UNCHANGED notProbe

NextProbe == ModuleInitSpi \/ ModuleInitPlatform \/ ModuleExit \/ SpiProbe \/ PlatformProbe

(***************************************************************************)
(* Specifications                                                          *)
(***************************************************************************)
Init == InitLed /\ InitTone /\ InitHandle /\ InitApp /\ InitLib /\ InitBtn /\ InitSeq /\ InitLock /\ InitScratch /\ InitProbe

SpecSeq == Init /\ [][NextSeq]_vars

SpecBeat == Init /\ [][NextBeat]_vars

SpecLed == Init /\ [][NextLed]_vars

SpecTone == Init /\ [][NextTone]_vars

SpecHandle == Init /\ [][NextHandle]_vars

SpecApp == Init /\ [][NextApp]_vars

SpecLib == Init /\ [][NextLib]_vars

SpecBtn == Init /\ [][NextBtn]_vars

SpecLock == Init /\ [][NextLock]_vars

SpecScratch == Init /\ [][NextScratch]_vars

SpecProbe == Init /\ [][NextProbe]_vars

\* each of the two threads is scheduled again and again
SpecTasksFair ==
    Init /\ [][NextTasks]_vars /\ WF_vars(SequencerTask) /\ WF_vars(InputTask)

\* every thread that can take a step eventually takes one, and a pending
\* signal is eventually handled
SpecAppFair ==
    /\ SpecApp
    /\ WF_vars(MainThread)
    /\ WF_vars(PianoThread)
    /\ WF_vars(AppSignalDelivered)

(***************************************************************************)
(* Properties of the LED endpoint (checked under SpecLed)                  *)
(***************************************************************************)
\* the pins a command stores a colour for, and the last colour it gives each
NamedPins(buf) == {Parsed[buf].ups[k][1] : k \in 1..Len(Parsed[buf].ups)}

GivenColour(buf, i) ==
    LET ups == Parsed[buf].ups
        last == CHOOSE k \in 1..Len(ups) :
                    ups[k][1] = i /\ \A m \in (k + 1)..Len(ups) : ups[m][1] # i
    IN  RgbOf(ups[last][2])

\* C1: every frame the LED endpoint hands to the bus is exactly 36 bytes:
\* four 0x00, then for LED i = 0..6 the bytes [0xFF, blue, green, red] of
\* the stored colour of LED i at offset 4 + 4*i, then four 0xFF, whatever
\* number of LEDs the command named.
C1_FrameIs36Bytes ==
    frame # <<>> =>
        /\ Len(frame) = 36
        /\ \A k \in 1..4 : frame[k] = 0
        /\ \A i \in 0..6 :
               /\ frame[4 + 4 * i + 1] = 255
               /\ frame[4 + 4 * i + 2] = leds[i].b
               /\ frame[4 + 4 * i + 3] = leds[i].g
               /\ frame[4 + 4 * i + 4] = leds[i].r
        /\ \A k \in 33..36 : frame[k] = 255

\* a frame sent for a command that named a single LED, with a colour whose
\* three channels differ on LED 1 and another on LED 3
C1_Witness ==
    /\ frame # <<>>
    /\ Cardinality(NamedPins(ledCmd)) = 1
    /\ leds[1] = [r |-> 171, g |-> 205, b |-> 239]
    /\ leds[3] = [r |-> 254, g |-> 220, b |-> 186]

\* C2: a write that fails validation (-EINVAL: bad pin, bad colour token,
\* oversized text) leaves every stored LED colour as it was before the
\* write and sends no frame.
C2_FailedWriteChangesNothing ==
    [][ledRet' = -EINVAL => (leds' = leds /\ frame' = <<>>)]_vars

\* C3: after a successful write every pin the command named holds the
\* colour given for it, and every other pin holds the colour it had after
\* the previous successful write.
C3_UnnamedPinsKeepLastSuccess ==
    [][ledRet' >= 0 =>
          \A i \in 0..(NUMBER_LEDS - 1) :
              IF i \in NamedPins(ledCmd')
              THEN leds'[i] = GivenColour(ledCmd', i)
              ELSE leds'[i] = ledsOk[i]]_vars

\* commands whose colour token is not exactly six hex digits: too short,
\* a character that is no hex digit, characters after the sixth digit
\* before the comma, and a character after the sixth digit at the end
ShortColour == <<"1", ":", "A", "B", "C">>
NonHexColour == <<"1", ":">> \o ColABCDEF \o <<",", "3", ":", "F", "E", "D", "C", "G", "A">>
LongColour == <<"1", ":">> \o ColABCDEF \o <<"x", "y", ",", "3", ":">> \o ColFEDCBA
TrailingColour == <<"1", ":">> \o ColFEDCBA \o <<"\n">>

\* C15: the LED endpoint rejects a command in which a colour token is not
\* exactly six hexadecimal digits (too short, a non-hex character, or extra
\* characters before the next comma or the end of the command).
C15_ColourIsExactlySixHexDigits ==
    ledCmd \in {ShortColour, NonHexColour, LongColour, TrailingColour} => ledRet < 0

\* C31: a write of more than 70 bytes returns -EINVAL, changes no stored
\* LED colour and sends no frame; a write of 70 bytes or fewer returns
\* -EINVAL only when parse_led_colors rejects its text.
C31_LengthLimitIs70 ==
    [][/\ Len(ledCmd') > 70
          => (ledRet' = -EINVAL /\ leds' = leds /\ frame' = <<>>)
       /\ (Len(ledCmd') <= 70 /\ ledRet' = -EINVAL)
          => Parsed[ledCmd'].ret # 0]_vars

\* C31 witness: the write of exactly 70 bytes was taken, it lit every LED
\* and sent its frame
C31_Witness ==
    /\ Len(ledCmd) = 70 /\ ledRet = 70 /\ frame # <<>>
    /\ \A i \in 0..6 : leds[i] = [r |-> 254, g |-> 220, b |-> 186]

(***************************************************************************)
(* Properties of the library's LED calls (checked under SpecLib)           *)
(***************************************************************************)
\* the diagnostic that names the category of an error of the LED endpoint
CategoryMsg(err) ==
    CASE err = -ENOMEM -> "LED-Device: Insufficient memory!"
      [] err = -ERESTARTSYS -> "LED-Device: Device busy!"
      [] err = -EFAULT -> "LED-Device: Segmentation fault!"
      [] err = -EINVAL -> "LED-Device: Invalid argument!"
      [] err = -EIO -> "LED-Device: Device error!"
      [] OTHER -> "LED-Device: Unexpected error occurred!"

\* C13: when the write to the LED endpoint fails, the LED call returns
\* failure and the diagnostic in the caller's buffer names the category of
\* the endpoint's error; the unexpected-error text is for other codes only.
C13_DiagnosticNamesCategory ==
    (libOp # "none" /\ libWrote /\ ledRet < 0)
        => (libRet = -1 /\ errBuf = CategoryMsg(ledRet))

\* the colours of the model's calls as stored LED colours
RgbABCDEF == [r |-> 171, g |-> 205, b |-> 239]
RgbFEDCBA == [r |-> 254, g |-> 220, b |-> 186]

\* the colour a led_arg gives for its k-th pin
ArgColour(ledArg, k) ==
    LET text == IF Len(ledArg.colors) = Len(ledArg.pins) THEN ledArg.colors[k]
                ELSE ledArg.colors[1]
    IN  CASE text = ColABCDEF -> RgbABCDEF
          [] text = ColFEDCBA -> RgbFEDCBA
          [] OTHER -> Black

ValidPin(n) == n \in 0..6

\* C14: a led_light_on whose pins hold an index outside 0..6, in whatever
\* position, fails, and an LED changes colour in that call only if a pin
\* inside 0..6 of the call names it, to the colour given for that pin: the
\* bad index is not clamped or wrapped onto an LED.
C14_BadPinFailsAndLightsNothing ==
    [][(/\ libOp' = "leds_on" /\ libWrote'
        /\ \E k \in 1..Len(libArg'.pins) : ~ValidPin(libArg'.pins[k]))
       => (/\ libRet' = -1
           /\ \A i \in 0..6 :
                  \/ leds'[i] = leds[i]
                  \/ \E k \in 1..Len(libArg'.pins) :
                         /\ libArg'.pins[k] = i
                         /\ leds'[i] = ArgColour(libArg', k))]_vars

\* C14 witness: led_light_on with pins {3, 7} and colours {ABCDEF, FEDCBA}
\* was rejected by the endpoint; no LED holds the colour given for pin 7
C14_Witness ==
    /\ libOp = "leds_on" /\ libWrote
    /\ libArg = [pins |-> <<3, 7>>, colors |-> <<ColABCDEF, ColFEDCBA>>]
    /\ ledRet = -EINVAL /\ libRet = -1
    /\ leds[3] = RgbABCDEF
    /\ \A i \in 0..6 : leds[i] # RgbFEDCBA

\* C30: a led_light_on whose number of colours is neither 1 nor the
\* number of pins fails with -1 and does not reach the write on the LED
\* endpoint.
C30_ColourCountMismatchRejected ==
    (libOp = "leds_on" /\ Len(libArg.colors) \notin {1, Len(libArg.pins)})
        => (libRet = -1 /\ ~libWrote)

\* the frame of a strip that is all black
BlackFrame ==
    <<0, 0, 0, 0>>
    \o <<255, 0, 0, 0>> \o <<255, 0, 0, 0>> \o <<255, 0, 0, 0>> \o <<255, 0, 0, 0>>
    \o <<255, 0, 0, 0>> \o <<255, 0, 0, 0>> \o <<255, 0, 0, 0>>
    \o <<255, 255, 255, 255>>

\* C17: a successful led_light_off names all 7 pins and sends the frame in
\* which every LED is black, whatever the LEDs held before; a second one
\* right after it sends the identical frame.
C17_ClearTwiceSameBlackFrame ==
    [][(libOp' = "leds_off" /\ libRet' = 0)
       => (/\ {libArg'.pins[k] : k \in 1..Len(libArg'.pins)} = 0..6
           /\ NamedPins(ledCmd') = 0..6
           /\ frame' = BlackFrame
           /\ (libOp = "leds_off" /\ libRet = 0) => frame' = frame)]_vars

\* C17 witness: two successful led_light_off in a row, the second sent the
\* all-black frame
C17_Witness ==
    /\ libPrev = <<"leds_off", 0>>
    /\ libOp = "leds_off" /\ libRet = 0
    /\ frame = BlackFrame

\* the call of C18 and the strip it is issued on
Pins13 == [pins |-> <<1, 3>>, colors |-> <<ColABCDEF, ColFEDCBA>>]
FreshStrip == \A i \in 0..6 : leds[i] = Black

\* C18: led_light_on for pins {1, 3} with colours {ABCDEF, FEDCBA} on a
\* fresh strip sends 36 bytes: four 0, seven LED blocks of which those of
\* pins 1 and 3 carry the colour as B, G, R after the 0xFF header byte and
\* the others carry the header byte and three zero colour bytes, four 0xFF.
C18_Pins13Frame ==
    [][(FreshStrip /\ libOp' = "leds_on" /\ libArg' = Pins13 /\ libRet' = 0)
       => frame' = <<0, 0, 0, 0>>
                   \o <<255, 0, 0, 0>> \o <<255, 239, 205, 171>> \o <<255, 0, 0, 0>>
                   \o <<255, 186, 220, 254>> \o <<255, 0, 0, 0>> \o <<255, 0, 0, 0>>
                   \o <<255, 0, 0, 0>>
                   \o <<255, 255, 255, 255>>]_vars

\* C18 as stated: the same, with every byte of the other LED blocks zero.
C18_OtherBlocksAllZero ==
    [][(FreshStrip /\ libOp' = "leds_on" /\ libArg' = Pins13 /\ libRet' = 0)
       => frame' = <<0, 0, 0, 0>>
                   \o <<0, 0, 0, 0>> \o <<255, 239, 205, 171>> \o <<0, 0, 0, 0>>
                   \o <<255, 186, 220, 254>> \o <<0, 0, 0, 0>> \o <<0, 0, 0, 0>>
                   \o <<0, 0, 0, 0>>
                   \o <<255, 255, 255, 255>>]_vars

\* C18 witness: the first LED call after start was led_light_on for pins
\* {1, 3}; it succeeded and only LEDs 1 and 3 are lit
C18_Witness ==
    /\ libPrev = <<"none", 0>>
    /\ libOp = "leds_on" /\ libArg = Pins13 /\ libRet = 0
    /\ Len(frame) = 36
    /\ leds[1] = RgbABCDEF /\ leds[3] = RgbFEDCBA
    /\ \A i \in (0..6) \ {1, 3} : leds[i] = Black

(***************************************************************************)
(* Properties of the button endpoint (checked under SpecBtn)               *)
(***************************************************************************)
\* the first button in the order A, B, C whose GPIO level is 0 (pressed)
FirstPressed(gpio) ==
    IF gpio[1] = 0 THEN "A"
    ELSE IF gpio[2] = 0 THEN "B"
    ELSE IF gpio[3] = 0 THEN "C"
    ELSE "NUL"

\* C16: for every combination of the three GPIO levels a get_active_button
\* whose read succeeds returns 0 and gives the first button in the order
\* A, B, C whose level is 0 (pressed), none when no level is 0, and one
\* button at most: A when all three are pressed.
C16_FirstPressedButtonWins ==
    (btnOp = "get_btn" /\ btnRet >= 0)
        => (/\ btnLibRet = 0
            /\ btnActive = FirstPressed(btnGpio)
            /\ btnActive \in {"A", "B", "C", "NUL"})

\* C16 witness: all three buttons pressed, get_active_button gave A
C16_Witness ==
    /\ btnOp = "get_btn" /\ btnRet = BTN_STATUS_SIZE
    /\ btnGpio = <<0, 0, 0>>
    /\ btnActive = "A" /\ btnLibRet = 0

(***************************************************************************)
(* Properties of the tone endpoint (checked under SpecTone)                *)
(***************************************************************************)
\* C4: of two play_tone calls whose writes overlapped at the endpoint (the
\* write of a found the lock held by b, and b's write then succeeded), b
\* returns success and a returns failure with the device-busy diagnostic.
C4_BusyCallerGetsFailure ==
    \A a \in Writers, b \in Writers :
        (/\ a # b
         /\ wArg[a].lib /\ wArg[b].lib
         /\ wpc[a] = "done" /\ wpc[b] = "done"
         /\ busyBy[a] = b
         /\ wRet[b] >= 0)
        => (ptRet[b] = 0 /\ ptRet[a] = -1 /\ ptMsg[a] = BuzzerBusyMsg)

\* C5, first part: at most one write is inside the section that configures
\* the tone generator, and it is the one holding the lock.
C5_Mutex ==
    /\ Cardinality({w \in Writers : InSection(w)}) <= 1
    /\ \A w \in Writers : InSection(w) => buzLock = w

\* C5, second part: a write about to try the lock can always take that
\* step (it never waits), and when it finds the lock held the step returns
\* -EBUSY to it and leaves the lock with its holder.
C5_NeverWaits == \A w \in Writers : wpc[w] = "trylock" => ENABLED BuzzerTryLock(w)

C5_BusyStep ==
    \A w \in Writers :
        (wpc[w] = "trylock" /\ wpc'[w] # "trylock" /\ buzLock # 0)
        => (wpc'[w] = "done" /\ wRet'[w] = -EBUSY /\ buzLock' = buzLock)

\* C5: at most one write is in the configuring section at any time; a write
\* that arrives while another holds the lock returns the busy error at once
\* and never waits for the lock.
C5_ExclusiveNonBlocking == [](C5_Mutex /\ C5_NeverWaits) /\ [][C5_BusyStep]_vars

\* two writes in progress: one holds the lock inside the section, the other
\* has just been refused with -EBUSY
C5_Witness ==
    \E a \in Writers, b \in Writers :
        /\ a # b
        /\ InSection(a)
        /\ wpc[b] = "done" /\ wRet[b] = -EBUSY /\ busyBy[b] = a

\* C6: a write that acquired the lock has released it when it returns, on
\* every path, and the lock is free whenever no write is in progress.
C6_LockReleasedOnReturn ==
    /\ \A w \in Writers : buzLock = w => InSection(w)
    /\ (\A w \in Writers : wpc[w] \in {"idle", "done"}) => buzLock = 0
    /\ buzLock \in {0} \cup Writers

\* both writers have returned after holding the lock, one through the
\* user-copy fault and one through the PWM configuration error
C6_Witness ==
    \E a \in Writers, b \in Writers :
        /\ a # b
        /\ wpc[a] = "done" /\ wRet[a] = -EFAULT
        /\ wpc[b] = "done" /\ wRet[b] = -EINVAL /\ wArg[b].count = SIZEOF_ULONG

\* C19: a write of frequency 0 disables the tone output and leaves the
\* configured period and duty as they were (no period is computed); it
\* returns the byte count, and the lock is free when it has returned.
C19_ZeroSilencesWithoutPeriod ==
    [][\A w \in Writers :
          /\ (wpc[w] = "config" /\ wpc'[w] # "config" /\ wArg[w].freq = 0)
             => (/\ pwm'.enabled = FALSE
                 /\ pwm'.period = pwm.period /\ pwm'.duty = pwm.duty
                 /\ wpc'[w] = "unlock"
                 /\ wRet'[w] = wArg[w].count)
          /\ (wpc[w] = "unlock" /\ wpc'[w] # "unlock" /\ wArg[w].freq = 0)
             => (/\ wpc'[w] = "done"
                 /\ wRet'[w] = SIZEOF_ULONG
                 /\ buzLock' = 0)]_vars

\* C19 witness: a write of 0 has returned its byte count after a tone had
\* been configured; the output is off, the period is the tone's, the lock
\* is free
C19_Witness ==
    \E w \in Writers :
        /\ wpc[w] = "done" /\ wArg[w].freq = 0 /\ wRet[w] = SIZEOF_ULONG
        /\ ~pwm.enabled /\ pwm.period > 0
        /\ buzLock = 0

\* frequencies at the ends of the range: the lowest gives the longest period
EdgeFreqs == {1, 2, 2147483647}

\* C20: the period handed to the PWM configuration, taken as a signed
\* int, is in 0..INT_MAX, and so is the duty; a write is rejected with
\* -ERANGE only for a frequency whose period exceeds INT_MAX, and a write
\* that configured the PWM had a period inside the range.
C20_PeriodFitsInt ==
    /\ pwm.period >= 0 /\ pwm.period <= INT_MAX
    /\ pwm.duty >= 0 /\ pwm.duty <= pwm.period
    /\ \A f \in (Freqs \cup EdgeFreqs) \ {0} : PeriodOf(f) >= 0 /\ PeriodOf(f) <= INT_MAX
    /\ \A w \in Writers :
           /\ wRet[w] = -ERANGE => PeriodOf(wArg[w].freq) > INT_MAX
           /\ (wpc[w] \in {"unlock", "done"} /\ wRet[w] > 0 /\ wArg[w].freq # 0)
              => PeriodOf(wArg[w].freq) <= INT_MAX

\* C20 witness: a write of a non-zero frequency configured the PWM with the
\* period of that frequency and returned
C20_Witness ==
    \E w \in Writers :
        /\ wpc[w] = "done" /\ wRet[w] = SIZEOF_ULONG /\ wArg[w].freq = FREQ_C
        /\ pwm.enabled /\ pwm.period = 3816793 /\ pwm.duty = 1908396

(***************************************************************************)
(* Properties of the handle's life cycle                                   *)
(***************************************************************************)
\* C10: free_rainbow_hat is idempotent: a second call on the same handle has
\* no further effect, reads no released memory, releases nothing twice and
\* closes no descriptor again.
C10_SecondFreeHasNoEffect ==
    hFrees >= 2 => (~hDoubleFree /\ ~hBadClose /\ ~hAbort /\ kOpen = StdFds)

\* C11: a library operation called with a handle that was passed to
\* free_rainbow_hat fails, does no I/O on any descriptor and reads nothing
\* from the released handle.
C11_OpAfterCloseFailsClosed ==
    [][(/\ hPtr = "dev" /\ hMem = "freed"
        /\ hPtr' = "dev" /\ hMem' = "freed"
        /\ hFrees' = hFrees)
       => (hOp'.ret = -1 /\ hOp'.io = -1 /\ hUaf' = hUaf)]_vars

\* the descriptors of the handle, as a set
HandleFdSet == {hFds[i] : i \in 1..3}

IsHandleCall == hOp' # hOp /\ hOp'.op \in HandleOps

\* C21: a call of any handle operation with a null handle returns -1, does
\* no read or write on an endpoint, writes nothing but the caller's error
\* buffer and changes nothing else of the process.
C21_NullHandleFailsAtOnce ==
    [][(IsHandleCall /\ hPtr = "null")
       => (/\ hOp'.ret = -1 /\ hOp'.io = -1
           /\ ~hOp'.nullw
           /\ UNCHANGED <<hMem, hFds, hPtr, kOpen, hFrees, hUaf, hDoubleFree,
                          hBadClose, hAbort>>)]_vars

\* C22: a handle operation called with no error buffer never writes a
\* diagnostic through the absent buffer, and the process goes on.
C22_AbsentBufferIsSafe ==
    [][(IsHandleCall /\ ~hOp'.buf) => (~hOp'.nullw /\ hAbort' = hAbort)]_vars

(***************************************************************************)
(* Properties of the application                                           *)
(***************************************************************************)
Joined == mpc \in {"m_free", "m_ret", "m_done"} /\ ppc = "p_ret"
Closed == mpc \in {"m_ret", "m_done"} /\ hMem = "freed"
\* exit(EXIT_FAILURE) after a failed kill: the process ends inside a loop
HardExit == procState = "exited" /\ mpc # "m_done"

\* C7: when a device error ended either loop, the status of the process
\* that exits after both loops have joined is not zero.
C7_FatalErrorExitsNonZero ==
    (procState = "exited" /\ Joined /\ fatal # {}) => exitStatus # 0

\* C8: after a device error in a loop or a signal from outside, the flag
\* becomes 0, both loops return, main joins the piano thread and closes the
\* handle; a kill that fails ends the process at once instead.
C8_ShutdownCompletes ==
    (fatal # {} \/ extSent > 0) ~> (HardExit \/ (keep_running = 0 /\ Joined /\ Closed))

\* C8 witness: the piano loop failed with no signal from outside, and the
\* process ended with the flag 0, both loops joined and the handle closed.
C8_Witness ==
    /\ fatal = {"piano"} /\ extSent = 0
    /\ keep_running = 0 /\ Joined /\ Closed
    /\ procState = "exited" /\ seqRet = 0 /\ pianoRet = -1

\* C9: with the flag 0 the metronome starts no further beat (no step takes
\* it to the leds_on of a beat) and the piano loop starts no further poll.
C9_NoNewPhaseOrPollOnceFlagIsZero ==
    [][keep_running = 0 =>
          /\ ~(mpc # "seq_on" /\ mpc' = "seq_on")
          /\ ~(ppc # "p_read" /\ ppc' = "p_read")]_vars

\* C23: when the tone endpoint rejects the write of the Input Loop's
\* play_tone, play_tone returns an error and the Input Loop goes to its
\* error exit instead of on to the sleep and the next poll.
C23_RejectedToneStopsInputLoop ==
    [][(ppc = "p_tone" /\ ppc' # "p_tone" /\ hOp'.op = "play_tone" /\ hOp'.dev < 0)
       => (hOp'.ret < 0 /\ ppc' = "p_err")]_vars

\* what err_exit has done when a loop leaves it: with the flag still set
\* the termination request is pending, or the process has ended with
\* EXIT_FAILURE because the request could not be sent
ShutdownSignalled ==
    IF keep_running # 0
    THEN \/ sigPending' /\ procState' = "running"
         \/ procState' = "exited" /\ exitStatus' = EXIT_FAILURE
    ELSE sigPending' = sigPending /\ procState' = procState

SeqStopped == mpc \in {"seq_err", "m_join", "m_free", "m_ret", "m_done"}
PianoStopped == ppc \in {"p_err", "p_ret"}

\* C24: a failed leds_on or leds_off takes the Sequencer, and a failed
\* get_btn takes the Input Loop, to its error exit; from there the loop
\* issues no further device operation, signals shutdown if the flag is
\* still set (ending the process when the request cannot be sent) and
\* returns -1.
C24_FailedOpEndsLoop ==
    [][/\ (mpc \in {"seq_on", "seq_off"} /\ mpc' # mpc /\ hOp'.ret < 0)
          => mpc' = "seq_err"
       /\ (ppc = "p_read" /\ ppc' # ppc /\ hOp'.ret < 0) => ppc' = "p_err"
       /\ SeqStopped => SeqStopped'
       /\ PianoStopped => PianoStopped'
       /\ (mpc = "seq_err" /\ mpc' # mpc)
          => (ShutdownSignalled /\ seqRet' = -1 /\ mpc' = "m_join")
       /\ (ppc = "p_err" /\ ppc' # ppc)
          => (ShutdownSignalled /\ pianoRet' = -1 /\ ppc' = "p_ret")]_vars

\* C24 witness: the Sequencer has returned -1 after a failed LED call and
\* its own termination request is pending, with no signal from outside
C24_Witness ==
    /\ "seq" \in fatal /\ mpc = "m_join" /\ seqRet = -1
    /\ sigPending /\ extSent = 0 /\ keep_running = 1 /\ "piano" \notin fatal

\* C27: a successful button read is followed by one play_tone, with 262,
\* 330 or 392 for button A, B or C and with 0 when no button is
\* recognised; no play_tone is issued except after a read, and after it
\* the loop sleeps (or takes its error exit) before it reads again.
C27_OneToneAfterEachRead ==
    [][/\ (ppc = "p_read" /\ ppc' # ppc /\ hOp'.ret = 0) => ppc' = "p_tone"
       /\ (ppc # "p_tone" /\ ppc' = "p_tone") => ppc = "p_read"
       /\ (ppc = "p_tone" /\ ppc' # ppc)
          => /\ hOp'.op = "play_tone"
             /\ ppc' \in {"p_sleep", "p_err"}
             /\ toneOut' = (CASE activeBtn = "A" -> 262
                              [] activeBtn = "B" -> 330
                              [] activeBtn = "C" -> 392
                              [] activeBtn = "NUL" -> 0)
       /\ (ppc # "p_tone" \/ ppc' = ppc) => toneOut' = toneOut]_vars

\* C27 witness: after a poll that found button B the Input Loop has
\* issued play_tone with 330
C27_Witness ==
    /\ ppc = "p_sleep" /\ hOp.op = "play_tone" /\ activeBtn = "B" /\ toneOut = 330
    /\ keep_running = 1

(***************************************************************************)
(* Properties of the Sequencer on the device                               *)
(***************************************************************************)
\* the phase a led_arg belongs to, 0 for none: all 7 pins in colour A,
\* pins 4,5,6 in colour B, pins 0,1,2 in colour B
PhaseOf(a) ==
    CASE a = [pins |-> <<0, 1, 2, 3, 4, 5, 6>>, colors |-> <<COLOR_RED>>] -> 1
      [] a = [pins |-> <<4, 5, 6>>, colors |-> <<COLOR_PURPLE>>] -> 2
      [] a = [pins |-> <<0, 1, 2>>, colors |-> <<COLOR_PURPLE>>] -> 3
      [] OTHER -> 0

SeqIssuesOn == mpc = "seq_on" /\ mpc' # mpc
SeqIssuesOff == mpc = "seq_off" /\ mpc' # mpc

\* C25: every leds_on of the Sequencer is that of the phase after the
\* phase of its previous leds_on (1 first, 1 after 3), and the LED call
\* before it is a leds_off (or none); every leds_off names all 7 pins
\* with black and the LED call before it is a leds_on.
C25_PhasesInOrderOneClearBetween ==
    [][/\ SeqIssuesOn
          => /\ libOp' = "leds_on"
             /\ PhaseOf(libArg') = (PhaseOf(seqLastOn) % 3) + 1
             /\ libPrev'[1] \in {"none", "leds_off"}
             /\ libPrev'[1] = "none" <=> seqLastOn = NoArg
       /\ SeqIssuesOff
          => /\ libOp' = "leds_off"
             /\ libArg' = [pins |-> <<0, 1, 2, 3, 4, 5, 6>>, colors |-> <<ColBlack>>]
             /\ libPrev'[1] = "leds_on"]_vars

\* C25 witness: phase 1 is issued again after phase 3 and its leds_off
C25_Witness ==
    /\ libOp = "leds_on" /\ PhaseOf(libArg) = 1 /\ PhaseOf(seqLastOn) = 3
    /\ libPrev[1] = "leds_off" /\ libRet = 0

BlackBlock == <<255, 0, 0, 0>>
RedBlock == <<255, 0, 0, 255>>
PurpleBlock == <<255, 255, 0, 255>>

\* the frames of the three phases: start bytes, LED 0 .. LED 6, stop bytes
PhaseFrame(p) ==
    <<0, 0, 0, 0>>
    \o (CASE p = 1 -> RedBlock \o RedBlock \o RedBlock \o RedBlock
                      \o RedBlock \o RedBlock \o RedBlock
          [] p = 2 -> BlackBlock \o BlackBlock \o BlackBlock \o BlackBlock
                      \o PurpleBlock \o PurpleBlock \o PurpleBlock
          [] p = 3 -> PurpleBlock \o PurpleBlock \o PurpleBlock \o BlackBlock
                      \o BlackBlock \o BlackBlock \o BlackBlock)
    \o <<255, 255, 255, 255>>

\* C26: the frame sent by a successful leds_on of the Sequencer has the
\* pins of its phase in the phase colour and every other pin black; the
\* frame sent by a successful leds_off is all black.
C26_PhaseFrames ==
    [][/\ (SeqIssuesOn /\ hOp'.ret = 0)
          => (libWrote' /\ frame' = PhaseFrame(PhaseOf(libArg')))
       /\ (SeqIssuesOff /\ hOp'.ret = 0)
          => (libWrote' /\ frame' = BlackFrame)]_vars

\* C26 witness: the frame of phase 2 has been sent, after phase 1 and its
\* leds_off
C26_Witness ==
    /\ libOp = "leds_on" /\ libRet = 0 /\ beat = 2 /\ mpc = "seq_off"
    /\ PhaseOf(seqLastOn) = 1
    /\ frame = PhaseFrame(2)

(***************************************************************************)
(* Properties of the beat arithmetic                                       *)
(***************************************************************************)
\* C28: the sleep for the rest of a beat is beat duration minus operation
\* time when that is positive, and is not called at all otherwise; the
\* value handed to usleep is never negative and never above the beat.
C28_RemainingSleepNeverNegative ==
    bpm # 0 =>
        /\ IF beat_duration_us - operation_time_us > 0
           THEN slept.called /\ slept.usec = beat_duration_us - operation_time_us
           ELSE ~slept.called
        /\ slept.usec >= 0 /\ slept.usec <= beat_duration_us

\* C28 witness: the operation took longer than the beat of 90 BPM and no
\* sleep was called
C28_Witness ==
    /\ bpm = 90 /\ operation_time_us = 700000 /\ operation_time_us > beat_duration_us
    /\ ~slept.called /\ slept.usec = 0

\* C29: at 90 BPM the beat duration is 666,667 microseconds, and with an
\* operation time of 5,000 microseconds the remaining sleep is 661,667.
C29_Beat90Is666667 ==
    /\ bpm = 90 => beat_duration_us = 666667
    /\ (bpm = 90 /\ operation_time_us = 5000)
       => (slept.called /\ slept.usec = 661667)

(***************************************************************************)
(* Properties of concurrent LED writes                                     *)
(***************************************************************************)
InLedSection(w) == lpc[w] \in {"copy", "parse", "send", "unlock"}

\* C32: concurrent writes to the LED endpoint are serialised: at most one
\* write is between taking and releasing the lock (parsing into the stored
\* colours or sending a frame) at any time, and every frame sent is built
\* from the stored colours after a whole number of commands, each applied
\* in full, in the order their writers took the lock.
C32_LedWritesSerialised ==
    [][/\ \A v, w \in LedWriters : (InLedSection(v) /\ InLedSection(w)) => v = w
       /\ \A w \in LedWriters : InLedSection(w) => spiLock = w
       /\ \A w \in LedWriters :
             (lpc[w] = "send" /\ lpc'[w] = "unlock" /\ lret'[w] > 0)
             => (leds = serial /\ frame' = update_leds_buffer(serial))]_vars

\* C32 witness: a frame has been sent by one writer while the other waits
\* for the lock, after both a two-pair command and clearLeds were applied
C32_Witness ==
    /\ \E v, w \in LedWriters :
          /\ lpc[v] = "unlock" /\ lret[v] = Len(ClearText) /\ lcmd[v] = ClearText
          /\ lpc[w] = "lock" /\ Len(lcmd[w]) = 17
    /\ leds[1] = Black
    /\ frame = update_leds_buffer([i \in 0..(NUMBER_LEDS - 1) |-> Black])

(***************************************************************************)
(* Properties of the two tasks and the two endpoint locks                  *)
(***************************************************************************)
LedCallOpen == lpc[1] # "idle"
ToneCallOpen == wpc[1] \notin {"idle", "done"}

\* C33: the Sequencer task, the Input task and the two endpoint locks never
\* deadlock: an LED write at its lock can take it whatever the tone lock
\* and the Input task are doing, a tone write at its trylock can go on
\* whatever the LED lock and the Sequencer are doing, each lock is held
\* only inside a call on its own endpoint, and every device call a task
\* started completes.
C33_TasksNeverDeadlock ==
    /\ [](lpc[1] = "lock" => ENABLED LwLock(1))
    /\ [](wpc[1] = "trylock" => ENABLED BuzzerTryLock(1))
    /\ []((spiLock # 0 => LedCallOpen) /\ (buzLock # 0 => ToneCallOpen))
    /\ (LedCallOpen ~> ~LedCallOpen)
    /\ (ToneCallOpen ~> ~ToneCallOpen)

\* C33 witness: both locks are held at once, the LED lock by the Sequencer in
\* the middle of parsing, the tone lock by the Input task about to configure
C33_Witness ==
    /\ spiLock = 1 /\ lpc[1] = "parse" /\ lups[1] # <<>>
    /\ buzLock = 1 /\ wpc[1] = "config" /\ wArg[1].freq = 262

(***************************************************************************)
(* Properties of the shared scratch buffer                                 *)
(***************************************************************************)
\* C34: when two tasks call setLeds/clearLeds on the same handle at the
\* same time, the text each call writes to the LED endpoint is exactly the
\* encoding of that call's own pins and colours, never an empty, mixed or
\* foreign command.
C34_EachCallWritesOwnEncoding ==
    [][\A c \in Callers :
          (cpc[c] = "write" /\ cpc'[c] = "idle")
          => cWrote'[c] = create_led_array(cArg[c].pins, cArg[c].colors).text]_vars

(***************************************************************************)
(* Properties of the application's shutdown                                *)
(***************************************************************************)
\* C35: in the application no device operation is issued on the handle
\* after it has been closed: the handle is closed only once the Sequencer
\* has returned and the Input thread has been joined, and it has been
\* closed exactly once whenever main is at or past its final return.
C35_ClosedOnceAfterBothTasks ==
    /\ ~hUaf /\ ~hDoubleFree /\ hFrees <= 1
    /\ (hPtr = "dev" /\ hMem = "freed")
       => (mpc \in {"m_ret", "m_done"} /\ ppc = "p_ret")
    /\ (hPtr = "dev" /\ mpc \in {"m_ret", "m_done"})
       => (hMem = "freed" /\ hFrees = 1 /\ kOpen = StdFds)

\* C35 witness: main has returned after the Input thread ended on a failed
\* call and the Sequencer on the signal, with the handle closed once
C35_Witness ==
    /\ mpc = "m_done" /\ hPtr = "dev" /\ hMem = "freed" /\ hFrees = 1
    /\ pianoRet = -1 /\ seqRet = 0 /\ hOp.op = "leds_off"

\* C36: whenever the Sequencer has returned 0 after at least one phase, the
\* last LED call was a successful leds_off and the last frame sent to the
\* strip is all black: the flag never ends the loop between a leds_on and
\* the leds_off after it.
C36_NormalReturnLeavesStripBlack ==
    (mpc = "m_join" /\ seqRet = 0 /\ libOp # "none")
    => (libOp = "leds_off" /\ libRet = 0 /\ libPrev[1] = "leds_on"
        /\ frame = BlackFrame
        /\ leds = [i \in 0..(NUMBER_LEDS - 1) |-> Black])

\* C36 witness: the Sequencer has returned 0 after a whole bar, the signal
\* having arrived during the bar; the strip is black
C36_Witness ==
    /\ mpc = "m_join" /\ seqRet = 0 /\ keep_running = 0
    /\ libOp = "leds_off" /\ PhaseOf(seqLastOn) = 3 /\ frame = BlackFrame

\* C37: when the process has terminated through main's return after a
\* shutdown request, the last value written to the tone endpoint before the
\* handle was closed is 0, even if a button was held when the flag fell.
C37_ToneOffAtExit ==
    (mpc = "m_done" /\ hPtr = "dev" /\ hMem = "freed" /\ keep_running = 0)
    => toneOut = 0

(***************************************************************************)
(* Properties of the tone period                                           *)
(***************************************************************************)
\* C38: for every non-zero frequency f the tone endpoint accepts, the PWM
\* is configured with period floor(10^9 / f) nanoseconds and duty
\* floor(period / 2), and that period is at least 1.
C38_AcceptedToneHasPositivePeriod ==
    [][\A w \in Writers :
          (wpc[w] = "config" /\ wpc'[w] = "unlock" /\ wArg[w].freq # 0)
          => /\ pwm'.period = NSEC_PER_SEC \div wArg[w].freq
             /\ pwm'.duty = pwm'.period \div 2
             /\ pwm'.period >= 1]_vars

(***************************************************************************)
(* Properties of driver setup                                              *)
(***************************************************************************)
\* C39: if the platform driver's probe fails at any step, no device file
\* it registered earlier remains registered when it returns the error; and
\* if module initialisation fails, no driver remains registered.
C39_FailedSetupLeavesNothingRegistered ==
    [][/\ (devState["platform"] = "none" /\ devState'["platform"] = "failed")
          => (probeRet'["platform"] < 0 /\ misc' \cap {"buttons", "buzzer"} = {})
       /\ (modState # "in" /\ modState' = "out" /\ initRet' < 0)
          => drivers' = {}]_vars

====
